---- MODULE Spec2Model ----
(***************************************************************************)
(* ink-picture: the protocol selector of the Image component, the          *)
(* capability-driven default (getBestProtocol), the Kitty image-id         *)
(* generator and the Kitty image component that uses it.                   *)
(*                                                                         *)
(* React is modelled by what it does to these components: a commit runs    *)
(* the passive effects of the child before those of the parent, state      *)
(* updates queued by the effects of one commit are applied together, in    *)
(* order, by the render that follows, and a render whose resulting state   *)
(* equals the current state re-renders nothing.                            *)
(***************************************************************************)
EXTENDS Integers, Sequences, FiniteSets, TLC

VARIABLES
    \* TerminalInfoProvider
    capsReady,             \* terminalInfo !== undefined
    terminalCapabilities,  \* terminalInfo.capabilities (meaningful when capsReady)
    \* Image (components/image/index.tsx)
    mounted,               \* an Image element is mounted
    protocolProp,          \* the protocol prop as passed by the caller
    protocol,              \* useState(initialProtocol)
    updateQueue,           \* setProtocol calls not yet applied by a render
    pc,                    \* position in the commit: idle/supportEffect/resetEffect/render
    resetScheduled,        \* the [initialProtocol] effect runs in this commit
    \* history of the selector
    lastSignal,            \* last supportDetected signal of the current batch
    falseCount,            \* false signals handled since the last reset
    resetInBatch,          \* the reset effect queued an update in this batch
    resetBy,               \* what armed the last reset: mount or prop change
    \* getBestProtocol
    termProgram,           \* process.env["TERM_PROGRAM"]
    konsoleVersion,        \* process.env["KONSOLE_VERSION"]
    bestCaps,              \* argument of the last getBestProtocol call
    best,                  \* its result ("none" before the first call)
    \* KittyIdGenerator (the singleton `generator`)
    currentId,             \* private currentId
    freedIds,              \* private freedIds, a Set in insertion order
    \* a direct caller of the exported generateId/freeId
    held,                  \* ids it was given and has not freed
    \* KittyImage, one entry per component instance
    kMounted,              \* the instance is mounted
    kImageId,              \* useState imageId (0 is undefined)
    kFetching,             \* generateImageOutput calls awaiting fetchImage
    kMeta,                 \* ... awaiting image.metadata()
    kEncoding,             \* ids of calls awaiting png().toBuffer()
    deletedIds,            \* ids named by a delete command written to stdout
    \* history of the direct caller's calls
    lastCall,              \* its last generateId/freeId call and the outcome
    rt,                    \* its run "allocate N, free them, allocate N"
    \* calculateImageSize
    sizeArgs,              \* argument of the last call
    sizeResult,            \* result of utils/image.ts calculateImageSize
    sizeAligned,           \* result of the calculateImageSize that takes an alignment
    sizeUnaligned,         \* its width and height before they are aligned
    \* the process
    procState,             \* "running", or "exited" after exit, SIGINT or SIGTERM
    \* ITerm2Image
    itMounted,             \* an ITerm2Image is mounted
    componentPosition,     \* usePosition: col, width and height of its box in cells
    generating,            \* box size captured by the generateImageOutput call in flight
    imageOutput,           \* useState imageOutput: the pixel size the payload declares
    actualSizeInCells,     \* useState actualSizeInCells
    renderTimeout,         \* the 100 ms render timer of the last layout effect is pending
    previousRenderBoundingBox, \* of the last layout effect's closure
    exitHandlers,          \* onExit / onSigInt are registered
    shouldCleanupRef,      \* shouldCleanupRef.current
    screen,                \* terminal cells that show image content, <<row, column>>
    \* history of the KittyImage instances
    lifeStep,              \* the last step of a KittyImage's life
    \* TerminalInfoProvider and its queryTerminalInfo call
    provMounted,           \* a TerminalInfoProvider is mounted
    terminalDimensions,    \* terminalInfo.dimensions (meaningful when capsReady)
    cellDimensions,        \* the local cellDimensions of queryTerminalInfo
    kittySupport,          \* its local supportsKittyGraphics
    hostEnv,               \* isTTY, version check, unicode and colour of the host
    \* queryEscapeSequence
    queryVariant,          \* "process": the process.stdin one; "ink": the setRawMode one
    probeStep,             \* the query awaiting its reply, "idle" when none
    runningReply,          \* runningReply, a sequence of chunks
    wasRaw,                \* const wasRaw of the call in flight
    \* standard input and Ink's other consumers of it
    stdinIsRaw,            \* stdin.isRaw
    stdinClosed,           \* stdin has emitted close
    rawModeEnabledCount,   \* Ink's count of setRawMode(true) callers
    consumerRaw,           \* a useInput hook (or Ink's Ctrl+C handling) holds raw mode
    \* history of the probe
    replied,               \* the terminal has replied since the provider mounted
    probeRuns,             \* queryTerminalInfo calls so far in this process
    \* toAscii
    asciiArgs,             \* the bytes of the pixel, the channels argument
    asciiIndex,            \* the index into ascii_chars computed for the pixel
    asciiOutput,           \* the returned string, the code point of each character
    \* the chunk loop of KittyImage's generateImageOutput
    chunkArgs,             \* base64Data.length and imageId
    chunkResult,           \* the commands written, in order
    \* KittyImage, one entry per component instance, and its terminal
    kHasError,             \* useState hasError
    written,               \* the graphics commands the last step wrote to stdout
    completeIds,           \* ids with their m=0 chunk written, of the images held as the last step began or sent in it
    \* one call of queryEscapeSequence with its timers, in milliseconds
    clock,                 \* the time since the call
    started,               \* the promise executor has run
    responseTimeoutId,     \* when the response timer is due, NoTimer if none is pending
    timeoutBetweenRepliesId, \* when the timer between replies is due, or NoTimer
    onDataListening,       \* onData is a listener of stdin's data event
    onCloseListening,      \* onClose is a listener of stdin's close event
    resolved,              \* the values resolve() was called with, in order
    \* history of the queryTerminalInfo call in flight
    queryLog,              \* the queries it has written, in order
    parsedReports,         \* the report codes (6, 4) it has parsed a size from
    \* the generateImageOutput calls of one image component
    request,               \* the number of the src the component has now
    inFlight,              \* the requests whose call has not ended
    loadedOk,              \* the requests whose call ended with an image
    committed,             \* the request imageId / imageOutput was set for
    \* the image components of one process and what they write
    comp,                  \* the state and the effect closures of each
    stdoutWrites           \* the stdout.write calls of the last step, in order

selVars == <<capsReady, terminalCapabilities, mounted, protocolProp, protocol,
             updateQueue, pc, resetScheduled, lastSignal, falseCount,
             resetInBatch, resetBy>>
bestVars == <<termProgram, konsoleVersion, bestCaps, best>>
allocVars == <<currentId, freedIds>>
kittyVars == <<kMounted, kImageId, kFetching, kMeta, kEncoding, deletedIds>>
sizeVars == <<sizeArgs, sizeResult, sizeAligned, sizeUnaligned>>
overlayVars == <<itMounted, componentPosition, generating, imageOutput,
                 actualSizeInCells, renderTimeout, previousRenderBoundingBox,
                 exitHandlers, shouldCleanupRef, screen>>
probeVars == <<provMounted, terminalDimensions, cellDimensions, kittySupport, hostEnv,
               queryVariant, probeStep, runningReply, wasRaw, stdinIsRaw, stdinClosed,
               rawModeEnabledCount, consumerRaw, replied, probeRuns>>
asciiVars == <<asciiArgs, asciiIndex, asciiOutput>>
chunkVars == <<chunkArgs, chunkResult>>
kittyLifeVars == <<kHasError, written, completeIds>>
timerVars == <<clock, started, responseTimeoutId, timeoutBetweenRepliesId,
               onDataListening, onCloseListening, resolved>>
probeLogVars == <<queryLog, parsedReports>>
loadVars == <<request, inFlight, loadedOk, committed>>
streamVars == <<comp, stdoutWrites>>
lastVars == <<probeLogVars, loadVars, streamVars>>
moreVars == <<asciiVars, chunkVars, kittyLifeVars, timerVars, lastVars>>
laterVars == <<sizeVars, procState, overlayVars, lifeStep, probeVars, moreVars>>
vars == <<selVars, bestVars, allocVars, held, kittyVars, lastCall, rt, laterVars>>

----------------------------------------------------------------------------
(* Types *)

ImageProtocolName == {"ascii", "braille", "halfBlock", "iterm2", "kitty", "sixel"}

Undefined == "undefined"

TerminalCapabilities ==
    [supportsUnicode : BOOLEAN, supportsColor : BOOLEAN,
     supportsSixelGraphics : BOOLEAN, supportsKittyGraphics : BOOLEAN,
     supportsITerm2Graphics : BOOLEAN]

NoCapabilities ==
    [supportsUnicode |-> FALSE, supportsColor |-> FALSE,
     supportsSixelGraphics |-> FALSE, supportsKittyGraphics |-> FALSE,
     supportsITerm2Graphics |-> FALSE]

----------------------------------------------------------------------------
(* Support gates of the six protocol components *)

AsciiIsSupported(caps) == TRUE

KittyIsSupported(caps) == caps.supportsKittyGraphics

ITerm2IsSupported(caps) == caps.supportsITerm2Graphics

HalfBlockIsSupported(caps) == caps.supportsUnicode /\ caps.supportsColor

BrailleIsSupported(caps) == caps.supportsUnicode

SixelIsSupported(caps) == caps.supportsSixelGraphics

\* ImageRenderer picks the component by name; the component's support
\* effect computes isSupported from the capabilities.
RendererIsSupported(p, caps) ==
    CASE p = "ascii"     -> AsciiIsSupported(caps)
      [] p = "braille"   -> BrailleIsSupported(caps)
      [] p = "halfBlock" -> HalfBlockIsSupported(caps)
      [] p = "iterm2"    -> ITerm2IsSupported(caps)
      [] p = "kitty"     -> KittyIsSupported(caps)
      [] p = "sixel"     -> SixelIsSupported(caps)
      [] OTHER           -> AsciiIsSupported(caps)

----------------------------------------------------------------------------
(* Image: the protocol selector *)

\* protocol: initialProtocol = "ascii"
DefaultProtocol(prop) == IF prop = Undefined THEN "ascii" ELSE prop

initialProtocol == DefaultProtocol(protocolProp)

getFallbackProtocol_skipBraille(currentProtocol) ==
    CASE currentProtocol = "kitty"     -> "halfBlock"
      [] currentProtocol = "iterm2"    -> "halfBlock"
      [] currentProtocol = "sixel"     -> "halfBlock"
      [] currentProtocol = "halfBlock" -> "ascii"
      [] currentProtocol = "braille"   -> "ascii"
      [] OTHER                         -> "ascii"

getFallbackProtocol(currentProtocol) ==
    CASE currentProtocol = "kitty"     -> "halfBlock"
      [] currentProtocol = "iterm2"    -> "halfBlock"
      [] currentProtocol = "sixel"     -> "halfBlock"
      [] currentProtocol = "halfBlock" -> "braille"
      [] currentProtocol = "braille"   -> "ascii"
      [] OTHER                         -> "ascii"

\* handleSupportDetected as a function of the pending updates: the
\* closure reads the protocol of the render it was created in.
handleSupportDetected_alwaysFallback(isSupported, queue) ==
    Append(queue, getFallbackProtocol(protocol))

handleSupportDetected(isSupported, queue) ==
    IF isSupported
    THEN queue
    ELSE Append(queue, getFallbackProtocol(protocol))

\* The state a render computes from the queued setProtocol calls.
ApplyUpdates(state, queue) ==
    IF queue = <<>> THEN state ELSE queue[Len(queue)]

SelInit ==
    /\ capsReady = FALSE
    /\ terminalCapabilities = NoCapabilities
    /\ mounted = FALSE
    /\ protocolProp = Undefined
    /\ protocol = "ascii"
    /\ updateQueue = <<>>
    /\ pc = "idle"
    /\ resetScheduled = FALSE
    /\ lastSignal = "none"
    /\ falseCount = 0
    /\ resetInBatch = FALSE
    /\ resetBy = "none"

\* queryTerminalInfo ends with setTerminalInfo: the context value becomes
\* defined and every consumer's [terminalCapabilities] effect re-runs.
ProbeComplete(caps) ==
    /\ pc = "idle"
    /\ ~capsReady
    /\ capsReady' = TRUE
    /\ terminalCapabilities' = caps
    /\ pc' = IF mounted THEN "supportEffect" ELSE "idle"
    /\ lastSignal' = "none"
    /\ UNCHANGED <<mounted, protocolProp, protocol, updateQueue,
                   resetScheduled, falseCount, resetInBatch, resetBy>>

\* First render of <Image protocol={prop}>: useState(initialProtocol);
\* the commit then runs the child's support effect and the reset effect.
MountImage(prop) ==
    /\ pc = "idle"
    /\ ~mounted
    /\ mounted' = TRUE
    /\ protocolProp' = prop
    /\ protocol' = DefaultProtocol(prop)
    /\ updateQueue' = <<>>
    /\ pc' = "supportEffect"
    /\ resetScheduled' = TRUE
    /\ lastSignal' = "none"
    /\ falseCount' = 0
    /\ resetInBatch' = FALSE
    /\ resetBy' = "mount"
    /\ UNCHANGED <<capsReady, terminalCapabilities>>

SupportEffect_reportsUnready ==
    /\ pc = "supportEffect"
    /\ LET caps == IF capsReady THEN terminalCapabilities ELSE NoCapabilities
           isSupported == RendererIsSupported(protocol, caps)
       IN  /\ updateQueue' = handleSupportDetected(isSupported, updateQueue)
           /\ lastSignal' = IF isSupported THEN "true" ELSE "false"
           /\ falseCount' = IF isSupported THEN falseCount ELSE falseCount + 1
    /\ pc' = IF resetScheduled THEN "resetEffect" ELSE "render"
    /\ UNCHANGED <<capsReady, terminalCapabilities, mounted, protocolProp,
                   protocol, resetScheduled, resetInBatch, resetBy>>

\* The protocol component's "Detect support and notify parent" effect.
SupportEffect ==
    /\ pc = "supportEffect"
    /\ IF ~capsReady
       THEN UNCHANGED <<updateQueue, lastSignal, falseCount>>
       ELSE LET isSupported == RendererIsSupported(protocol, terminalCapabilities)
            IN  /\ updateQueue' = handleSupportDetected(isSupported, updateQueue)
                /\ lastSignal' = IF isSupported THEN "true" ELSE "false"
                /\ falseCount' = IF isSupported THEN falseCount ELSE falseCount + 1
    /\ pc' = IF resetScheduled THEN "resetEffect" ELSE "render"
    /\ UNCHANGED <<capsReady, terminalCapabilities, mounted, protocolProp,
                   protocol, resetScheduled, resetInBatch, resetBy>>

ResetEffect_keepsProtocol ==
    /\ pc = "resetEffect"
    /\ updateQueue' = Append(updateQueue, protocol)
    /\ resetScheduled' = FALSE
    /\ resetInBatch' = TRUE
    /\ falseCount' = 0
    /\ pc' = "render"
    /\ UNCHANGED <<capsReady, terminalCapabilities, mounted, protocolProp,
                   protocol, lastSignal, resetBy>>

\* useEffect(() => setProtocol(initialProtocol), [initialProtocol])
ResetEffect ==
    /\ pc = "resetEffect"
    /\ updateQueue' = Append(updateQueue, initialProtocol)
    /\ resetScheduled' = FALSE
    /\ resetInBatch' = TRUE
    /\ falseCount' = 0
    /\ pc' = "render"
    /\ UNCHANGED <<capsReady, terminalCapabilities, mounted, protocolProp,
                   protocol, lastSignal, resetBy>>

\* The render that applies the queued updates. A changed protocol mounts
\* another protocol component, whose support effect then runs; an
\* unchanged one re-renders nothing.
Render ==
    /\ pc = "render"
    /\ protocol' = ApplyUpdates(protocol, updateQueue)
    /\ updateQueue' = <<>>
    /\ pc' = IF protocol' # protocol THEN "supportEffect" ELSE "idle"
    /\ resetInBatch' = FALSE
    /\ lastSignal' = IF protocol' # protocol THEN "none" ELSE lastSignal
    /\ UNCHANGED <<capsReady, terminalCapabilities, mounted, protocolProp,
                   resetScheduled, falseCount, resetBy>>

\* The caller re-renders <Image> with another protocol prop. The state is
\* the old one in this render, so the child's effect does not re-run; the
\* reset effect runs when initialProtocol changed.
ChangeProtocolProp(prop) ==
    /\ pc = "idle"
    /\ mounted
    /\ prop # protocolProp
    /\ protocolProp' = prop
    /\ IF DefaultProtocol(prop) # initialProtocol
       THEN /\ pc' = "resetEffect"
            /\ resetScheduled' = TRUE
            /\ resetBy' = "change"
            /\ lastSignal' = "none"
       ELSE UNCHANGED <<pc, resetScheduled, resetBy, lastSignal>>
    /\ UNCHANGED <<capsReady, terminalCapabilities, mounted, protocol,
                   updateQueue, falseCount, resetInBatch>>

UnmountImage ==
    /\ pc = "idle"
    /\ mounted
    /\ mounted' = FALSE
    /\ UNCHANGED <<capsReady, terminalCapabilities, protocolProp, protocol,
                   updateQueue, pc, resetScheduled, lastSignal, falseCount,
                   resetInBatch, resetBy>>

----------------------------------------------------------------------------
(* getBestProtocol *)

TermPrograms == {"iTerm.app", "WarpTerminal", "WezTerm", "vscode", Undefined}

KonsoleVersions == {Undefined, "", "220400"}

\* process.env[...] && ... : undefined and "" are falsy
Truthy(s) == s # Undefined /\ s # ""

getBestProtocol_kittyFirst(caps, TERM_PROGRAM, KONSOLE_VERSION) ==
    IF caps.supportsKittyGraphics THEN "kitty"
    ELSE IF caps.supportsITerm2Graphics THEN "iterm2"
    ELSE IF caps.supportsSixelGraphics THEN "sixel"
    ELSE IF caps.supportsUnicode /\ caps.supportsColor THEN "halfBlock"
    ELSE IF caps.supportsUnicode THEN "braille"
    ELSE "ascii"

getBestProtocol(caps, TERM_PROGRAM, KONSOLE_VERSION) ==
    IF TERM_PROGRAM = "iTerm.app" /\ caps.supportsITerm2Graphics THEN "iterm2"
    ELSE IF TERM_PROGRAM = "WarpTerminal" /\ caps.supportsITerm2Graphics THEN "iterm2"
    ELSE IF TERM_PROGRAM = "WezTerm" /\ caps.supportsITerm2Graphics THEN "iterm2"
    ELSE IF Truthy(KONSOLE_VERSION) /\ caps.supportsKittyGraphics THEN "kitty"
    ELSE IF caps.supportsKittyGraphics THEN "kitty"
    ELSE IF caps.supportsITerm2Graphics THEN "iterm2"
    ELSE IF caps.supportsSixelGraphics THEN "sixel"
    ELSE IF caps.supportsUnicode /\ caps.supportsColor THEN "halfBlock"
    ELSE IF caps.supportsUnicode THEN "braille"
    ELSE "ascii"

BestInit ==
    /\ termProgram \in TermPrograms
    /\ konsoleVersion \in KonsoleVersions
    /\ bestCaps = NoCapabilities
    /\ best = "none"

CallGetBestProtocol(caps) ==
    /\ bestCaps' = caps
    /\ best' = getBestProtocol(caps, termProgram, konsoleVersion)
    /\ UNCHANGED <<termProgram, konsoleVersion>>

----------------------------------------------------------------------------
(* KittyIdGenerator *)

MIN_ID == 1048576

\* The id range is scaled: MAX_ID is 16777216 in the source.
IdSpace == 3

MAX_ID == MIN_ID + IdSpace

SeqRange(q) == {q[i] : i \in 1..Len(q)}

\* generateId(): the outcome and the generator's fields after the call.
generateId_keepsFreed(cur, freed) ==
    IF Len(freed) > 0
    THEN [threw |-> FALSE, id |-> Head(freed), currentId |-> cur, freedIds |-> freed]
    ELSE IF cur >= MAX_ID
    THEN [threw |-> TRUE, id |-> 0, currentId |-> cur, freedIds |-> freed]
    ELSE [threw |-> FALSE, id |-> cur, currentId |-> cur + 1, freedIds |-> freed]

generateId_mintsFirst(cur, freed) ==
    IF cur < MAX_ID
    THEN [threw |-> FALSE, id |-> cur, currentId |-> cur + 1, freedIds |-> freed]
    ELSE IF Len(freed) > 0
    THEN [threw |-> FALSE, id |-> Head(freed), currentId |-> cur, freedIds |-> Tail(freed)]
    ELSE [threw |-> TRUE, id |-> 0, currentId |-> cur, freedIds |-> freed]

generateId_noLimit(cur, freed) ==
    IF Len(freed) > 0
    THEN [threw |-> FALSE, id |-> Head(freed), currentId |-> cur, freedIds |-> Tail(freed)]
    ELSE [threw |-> FALSE, id |-> cur, currentId |-> cur + 1, freedIds |-> freed]

generateId(cur, freed) ==
    IF Len(freed) > 0
    THEN [threw |-> FALSE, id |-> Head(freed), currentId |-> cur, freedIds |-> Tail(freed)]
    ELSE IF cur >= MAX_ID
    THEN [threw |-> TRUE, id |-> 0, currentId |-> cur, freedIds |-> freed]
    ELSE [threw |-> FALSE, id |-> cur, currentId |-> cur + 1, freedIds |-> freed]

\* freeId(id): Set.add keeps one copy, and the size comparison is always true.
freeId(id, cur, freed) ==
    IF id >= MIN_ID /\ id < cur
    THEN [result |-> TRUE,
          freedIds |-> IF id \in SeqRange(freed) THEN freed ELSE Append(freed, id)]
    ELSE [result |-> FALSE, freedIds |-> freed]

getActiveIdCount == currentId - MIN_ID - Len(freedIds)

getAvailableIdCount == MAX_ID - currentId + Len(freedIds)

AllocInit ==
    /\ currentId = MIN_ID
    /\ freedIds = <<>>

\* The generator's part of a step that calls generateId().
CallGenerateId(r) ==
    /\ r = generateId(currentId, freedIds)
    /\ currentId' = r.currentId
    /\ freedIds' = r.freedIds

\* The generator's part of a step that calls freeId(id).
CallFreeId(id, r) ==
    /\ r = freeId(id, currentId, freedIds)
    /\ freedIds' = r.freedIds
    /\ UNCHANGED currentId

----------------------------------------------------------------------------
(* A direct caller of generateId / freeId *)

\* What a caller passes to freeId: an id it holds, or a number that was
\* never handed out.
FreeArguments == held \cup {MIN_ID - 1, currentId, MAX_ID}

NoCall == [op |-> "none", id |-> 0, ok |-> TRUE]

RtStart == [phase |-> "alloc1", A |-> {}, F |-> {}, B |-> {}, clean |-> TRUE]

RtOnGenerate(r) ==
    IF r.threw THEN RtStart
    ELSE CASE rt.phase = "alloc1" -> [rt EXCEPT !.A = @ \cup {r.id}]
           [] rt.phase = "free" ->
                IF rt.F = rt.A
                THEN [rt EXCEPT !.phase = "alloc2", !.B = {r.id}]
                ELSE [RtStart EXCEPT !.A = {r.id}]
           [] rt.phase = "alloc2" ->
                IF Cardinality(rt.B) < Cardinality(rt.A)
                THEN [rt EXCEPT !.B = @ \cup {r.id}]
                ELSE [RtStart EXCEPT !.A = {r.id}]

RtOnFree(id, r) ==
    IF ~r.result THEN rt
    ELSE CASE rt.phase = "alloc1" ->
                IF id \in rt.A
                THEN [rt EXCEPT !.phase = "free", !.F = {id}, !.clean = (freedIds = <<>>)]
                ELSE RtStart
           [] rt.phase = "free" ->
                IF id \in rt.A \ rt.F
                THEN [rt EXCEPT !.F = @ \cup {id}]
                ELSE RtStart
           [] rt.phase = "alloc2" ->
                IF id \in rt.B
                THEN [phase |-> "free", A |-> rt.B, F |-> {id}, B |-> {},
                      clean |-> (freedIds = <<>>)]
                ELSE RtStart

ClientInit ==
    /\ held = {}
    /\ lastCall = NoCall
    /\ rt = RtStart

ClientGenerateId ==
    \E r \in {generateId(currentId, freedIds)} :
        /\ CallGenerateId(r)
        /\ held' = IF r.threw THEN held ELSE held \cup {r.id}

ClientFreeId(id) ==
    /\ id \in FreeArguments
    /\ \E r \in {freeId(id, currentId, freedIds)} :
        /\ CallFreeId(id, r)
        /\ held' = held \ {id}

\* freeId(id) by a caller that passes any number: an id it holds, one it
\* has freed before, one that was never handed out.
ClientFreeAnyId(id) ==
    \E r \in {freeId(id, currentId, freedIds)} :
        /\ CallFreeId(id, r)
        /\ held' = held \ {id}

\* The record of the caller's calls.
RecordGenerateId ==
    LET r == generateId(currentId, freedIds)
    IN  /\ lastCall' = [op |-> "generateId", id |-> r.id, ok |-> ~r.threw]
        /\ rt' = RtOnGenerate(r)

RecordFreeId(id) ==
    LET r == freeId(id, currentId, freedIds)
    IN  /\ lastCall' = [op |-> "freeId", id |-> id, ok |-> r.result]
        /\ rt' = RtOnFree(id, r)

----------------------------------------------------------------------------
(* KittyImage *)

NumKitty == 2

MaxInFlight == 1

KittyComponents == 1..NumKitty

NoImage == 0

RECURSIVE SumOver(_, _)
SumOver(f, S) ==
    IF S = {} THEN 0
    ELSE LET k == CHOOSE x \in S : TRUE IN f[k] + SumOver(f, S \ {k})

\* generateImageOutput calls that have not run to their end
InFlight ==
    SumOver([k \in KittyComponents |->
                kFetching[k] + kMeta[k] + Cardinality(kEncoding[k])],
            KittyComponents)

KittyInit ==
    /\ kMounted = [k \in KittyComponents |-> FALSE]
    /\ kImageId = [k \in KittyComponents |-> NoImage]
    /\ kFetching = [k \in KittyComponents |-> 0]
    /\ kMeta = [k \in KittyComponents |-> 0]
    /\ kEncoding = [k \in KittyComponents |-> {}]
    /\ deletedIds = {}

\* The image effect calls generateImageOutput(), which returns at once
\* without componentPosition or terminalDimensions and otherwise awaits
\* fetchImage(src).
StartGenerateImageOutput(k, ready) ==
    kFetching' = IF ready THEN [kFetching EXCEPT ![k] = @ + 1] ELSE kFetching

\* Mount: state is fresh, the image effect runs. Entry k stands for a new
\* instance only once the calls of the instance before it have ended
\* (their setImageId would reach the unmounted instance, not this one).
KittyMount(k, ready) ==
    /\ ~kMounted[k]
    /\ kFetching[k] + kMeta[k] + Cardinality(kEncoding[k]) = 0
    /\ ready => InFlight < MaxInFlight
    /\ kMounted' = [kMounted EXCEPT ![k] = TRUE]
    /\ kImageId' = [kImageId EXCEPT ![k] = NoImage]
    /\ StartGenerateImageOutput(k, ready)
    /\ UNCHANGED <<kMeta, kEncoding, deletedIds, allocVars>>

\* src, width, height, the box size or terminalDimensions changed: the
\* image effect runs again.
KittyParamsChanged(k, ready) ==
    /\ kMounted[k]
    /\ ready
    /\ InFlight < MaxInFlight
    /\ StartGenerateImageOutput(k, ready)
    /\ UNCHANGED <<kMounted, kImageId, kMeta, kEncoding, deletedIds, allocVars>>

\* fetchImage resolved: undefined ends the call (the placeholder shows
\* "Load failed"), an image goes on to await metadata().
KittyFetched(k, ok) ==
    /\ kFetching[k] > 0
    /\ kFetching' = [kFetching EXCEPT ![k] = @ - 1]
    /\ kMeta' = IF ok THEN [kMeta EXCEPT ![k] = @ + 1] ELSE kMeta
    /\ UNCHANGED <<kMounted, kImageId, kEncoding, deletedIds, allocVars>>

\* metadata() resolved: size, resize, then generateKittyId() inside try;
\* a throw is caught and ends the call, an id awaits png().toBuffer().
KittyGenerateId(k) ==
    /\ kMeta[k] > 0
    /\ kMeta' = [kMeta EXCEPT ![k] = @ - 1]
    /\ \E r \in {generateId(currentId, freedIds)} :
        /\ CallGenerateId(r)
        /\ kEncoding' = IF r.threw THEN kEncoding
                        ELSE [kEncoding EXCEPT ![k] = @ \cup {r.id}]
    /\ UNCHANGED <<kMounted, kImageId, kFetching, deletedIds>>

\* The cleanup of the [imageId, stdout] effect: delete the image it closed over.
KittyCleanup(oldImageId) ==
    IF oldImageId = NoImage THEN deletedIds ELSE deletedIds \cup {oldImageId}

KittyDepsChanged_always(oldImageId, newImageId) == TRUE

\* [imageId, stdout]: the cleanup runs in a commit that changed imageId
\* (useStdout gives the same stream in every render).
KittyDepsChanged(oldImageId, newImageId) == oldImageId # newImageId

\* What a commit of KittyImage deletes: the placement effect, which has no
\* dependency list and no cleanup, only places the image.
KittyCommit(oldImageId, newImageId) ==
    IF KittyDepsChanged(oldImageId, newImageId)
    THEN KittyCleanup(oldImageId)
    ELSE deletedIds

\* toBuffer() resolved: the chunks are written and setImageId(imageId)
\* commits, which runs the cleanup of the previous imageId; a throw is
\* caught and ends the call. setState of an unmounted instance does nothing.
KittyTransmitted(k, id, ok) ==
    /\ id \in kEncoding[k]
    /\ kEncoding' = [kEncoding EXCEPT ![k] = @ \ {id}]
    /\ IF kMounted[k] /\ ok
       THEN /\ kImageId' = [kImageId EXCEPT ![k] = id]
            /\ deletedIds' = KittyCommit(kImageId[k], id)
       ELSE UNCHANGED <<kImageId, deletedIds>>
    /\ UNCHANGED <<kMounted, kFetching, kMeta, allocVars>>

\* Any other re-render of a mounted KittyImage: imageId is as it was.
KittyRerender(k) ==
    /\ kMounted[k]
    /\ deletedIds' = KittyCommit(kImageId[k], kImageId[k])
    /\ UNCHANGED <<kMounted, kImageId, kFetching, kMeta, kEncoding, allocVars>>

\* Unmount: the cleanup of the [imageId, stdout] effect runs.
KittyUnmount(k) ==
    /\ kMounted[k]
    /\ kMounted' = [kMounted EXCEPT ![k] = FALSE]
    /\ deletedIds' = KittyCleanup(kImageId[k])
    /\ kImageId' = [kImageId EXCEPT ![k] = NoImage]
    /\ UNCHANGED <<kFetching, kMeta, kEncoding, allocVars>>

----------------------------------------------------------------------------
(* KittyImage: the chunk loop of generateImageOutput *)

\* const chunkSize = 4096
chunkSize == 4096

\* base64Data.slice(from, to) as the interval of positions it takes, for
\* 0 <= from <= to: both ends stop at base64Data.length
Slice(length, from, to) ==
    [from |-> IF from < length THEN from ELSE length,
     to   |-> IF to < length THEN to ELSE length]

\* A graphics command written to stdout: "transmit" carries a payload, the
\* interval of base64Data it holds, and the m key; keys is "f,t,i,m,q"
\* for `f=100,t=d,i=<id>,m=1,q=2` and "m,q" for `m=<m>,q=2`; id is 0 where
\* the command has no i key.
TransmitCommand(keys, id, m, payload) ==
    [cmd |-> "transmit", keys |-> keys, id |-> id, m |-> m, p |-> 0,
     from |-> payload.from, to |-> payload.to]

MoreChunksFollow_stopsLate(bufferOffset, length) ==
    bufferOffset < length - 2 * chunkSize

\* while (bufferOffset < base64Data.length - chunkSize)
MoreChunksFollow(bufferOffset, length) ==
    bufferOffset < length - chunkSize

\* The while loop and the last chunk, from bufferOffset on
RECURSIVE ChunksFrom(_, _)
ChunksFrom(bufferOffset, length) ==
    IF MoreChunksFollow(bufferOffset, length)
    THEN <<TransmitCommand("m,q", 0, 1,
                           Slice(length, bufferOffset, bufferOffset + chunkSize))>>
         \o ChunksFrom(bufferOffset + chunkSize, length)
    ELSE <<TransmitCommand("m,q", 0, 0, Slice(length, bufferOffset, length))>>

\* The writes of the try block for base64Data of this length
KittyChunks(length, imageId) ==
    <<TransmitCommand("f,t,i,m,q", imageId, 1, Slice(length, 0, chunkSize))>>
    \o ChunksFrom(chunkSize, length)

\* data.toString("base64") has a length that is a multiple of 4; the
\* lengths run up to 4 * MaxQuads, past three chunks.
MaxQuads == 3074

Base64Lengths == {4 * n : n \in 1..MaxQuads}

ChunkIdle ==
    /\ chunkArgs = [length |-> 4, imageId |-> 1]
    /\ chunkResult = <<>>

ChunkInit ==
    /\ chunkArgs \in [length : Base64Lengths, imageId : 1..2]
    /\ chunkResult = <<>>

\* The chunk loop runs for an id and the data of a length
WriteChunks ==
    /\ chunkResult = <<>>
    /\ chunkResult' = KittyChunks(chunkArgs.length, chunkArgs.imageId)
    /\ UNCHANGED chunkArgs

----------------------------------------------------------------------------
(* calculateImageSize *)

\* Numbers are fractions <<numerator, denominator>> with a positive
\* denominator: the pixel sizes and the aspect ratio are not integers in
\* general (a cell is width / columns pixels wide after the 14t query).
Frac(n, d) == <<n, d>>

Whole(n) == <<n, 1>>

Less(a, b) == a[1] * b[2] < b[1] * a[2]

SameNumber(a, b) == a[1] * b[2] = b[1] * a[2]

Times(a, b) == <<a[1] * b[1], a[2] * b[2]>>

Over(a, b) == <<a[1] * b[2], a[2] * b[1]>>

\* Math.min
Min(a, b) == IF Less(b, a) THEN b ELSE a

\* Math.floor, Math.ceil and Math.round (halves go up) of a number >= 0
Floor(a) == a[1] \div a[2]

Ceil(a) == (a[1] + a[2] - 1) \div a[2]

Round(a) == (2 * a[1] + a[2]) \div (2 * a[2])

MaxOf(m, n) == IF m > n THEN m ELSE n

\* if (specifiedWidth): undefined and 0 are falsy alike, and one value
\* stands for both
Unspecified == <<0, 1>>

Specified(x) == x[1] # 0

calculateImageSize_unclamped(a) ==
    [width |-> Round(a.specifiedWidth), height |-> Round(a.specifiedHeight)]

calculateImageSize_clampWithoutRederive(a) ==
    LET maxWidth == a.maxWidth
        maxHeight == a.maxHeight
        ratio == a.originalAspectRatio
        Rounded(w, h) == [width |-> Round(w), height |-> Round(h)]
    IN  IF Specified(a.specifiedWidth) /\ Specified(a.specifiedHeight)
        THEN Rounded(Min(a.specifiedWidth, maxWidth), Min(a.specifiedHeight, maxHeight))
        ELSE IF Specified(a.specifiedWidth)
        THEN Rounded(Min(a.specifiedWidth, maxWidth),
                     Min(Over(Min(a.specifiedWidth, maxWidth), ratio), maxHeight))
        ELSE IF Specified(a.specifiedHeight)
        THEN Rounded(Min(Times(Min(a.specifiedHeight, maxHeight), ratio), maxWidth),
                     Min(a.specifiedHeight, maxHeight))
        ELSE Rounded(Min(Times(maxHeight, ratio), maxWidth), maxHeight)

\* utils/image.ts: every branch returns the rounded pair
calculateImageSize(a) ==
    LET maxWidth == a.maxWidth
        maxHeight == a.maxHeight
        ratio == a.originalAspectRatio
        Rounded(w, h) == [width |-> Round(w), height |-> Round(h)]
    IN  IF Specified(a.specifiedWidth) /\ Specified(a.specifiedHeight)
        THEN Rounded(Min(a.specifiedWidth, maxWidth), Min(a.specifiedHeight, maxHeight))
        ELSE IF Specified(a.specifiedWidth)
        THEN LET width == Min(a.specifiedWidth, maxWidth)
                 height == Over(width, ratio)
             IN  IF Less(maxHeight, height)
                 THEN Rounded(Times(maxHeight, ratio), maxHeight)
                 ELSE Rounded(width, height)
        ELSE IF Specified(a.specifiedHeight)
        THEN LET height == Min(a.specifiedHeight, maxHeight)
                 width == Times(height, ratio)
             IN  IF Less(maxWidth, width)
                 THEN Rounded(maxWidth, Over(maxWidth, ratio))
                 ELSE Rounded(width, height)
        ELSE LET height1 == maxHeight
                 width1 == Times(height1, ratio)
                 clampW == Less(maxWidth, width1)
                 width2 == IF clampW THEN maxWidth ELSE width1
                 height2 == IF clampW THEN Over(width2, ratio) ELSE height1
                 clampH == Less(maxHeight, height2)
                 height3 == IF clampH THEN maxHeight ELSE height2
                 width3 == IF clampH THEN Times(height3, ratio) ELSE width2
             IN  Rounded(width3, height3)

\* The calculateImageSize with an alignment: lines 31-73, the size before
\* it is aligned.
UnalignedSize(a) ==
    LET maxWidth == a.maxWidth
        maxHeight == a.maxHeight
        ratio == a.originalAspectRatio
    IN  IF Specified(a.specifiedWidth) /\ Specified(a.specifiedHeight)
        THEN [width |-> Min(a.specifiedWidth, maxWidth),
              height |-> Min(a.specifiedHeight, maxHeight)]
        ELSE IF Specified(a.specifiedWidth)
        THEN LET width == Min(a.specifiedWidth, maxWidth)
                 height == Over(width, ratio)
             IN  IF Less(maxHeight, height)
                 THEN [width |-> Times(maxHeight, ratio), height |-> maxHeight]
                 ELSE [width |-> width, height |-> height]
        ELSE IF Specified(a.specifiedHeight)
        THEN LET height == Min(a.specifiedHeight, maxHeight)
                 width == Times(height, ratio)
             IN  IF Less(maxWidth, width)
                 THEN [width |-> maxWidth, height |-> Over(maxWidth, ratio)]
                 ELSE [width |-> width, height |-> height]
        ELSE LET height1 == maxHeight
                 width1 == Times(height1, ratio)
                 clampW == Less(maxWidth, width1)
                 width2 == IF clampW THEN maxWidth ELSE width1
                 height2 == IF clampW THEN Over(width2, ratio) ELSE height1
                 clampH == Less(maxHeight, height2)
                 height3 == IF clampH THEN maxHeight ELSE height2
                 width3 == IF clampH THEN Times(height3, ratio) ELSE width2
             IN  [width |-> width3, height |-> height3]

\* alignment.width || 1: undefined and 0 alike give 1, and 0 stands for both
AlignOr1(x) == IF x = 0 THEN 1 ELSE x

calculateImageSizeWithAlignment_noFloor(a) ==
    LET size == UnalignedSize(a)
        alignW == AlignOr1(a.alignment.width)
        alignH == AlignOr1(a.alignment.height)
    IN  [width |-> MaxOf(alignW, Round(size.width)),
         height |-> MaxOf(alignH, Round(size.height))]

\* Math.floor(width / alignW) * alignW is a whole number, which Math.round keeps
calculateImageSizeWithAlignment(a) ==
    LET size == UnalignedSize(a)
        alignW == AlignOr1(a.alignment.width)
        alignH == AlignOr1(a.alignment.height)
        alignedWidth == Floor(Over(size.width, Whole(alignW))) * alignW
        alignedHeight == Floor(Over(size.height, Whole(alignH))) * alignH
    IN  [width |-> MaxOf(alignW, Round(Whole(alignedWidth))),
         height |-> MaxOf(alignH, Round(Whole(alignedHeight)))]

\* The sizes a call is made with: whole pixel counts up to MaxLen, one
\* fractional and one oversized explicit size, and a few aspect ratios.
MaxLen == 9

MaxSizes == {Whole(n) : n \in 1..MaxLen}

SpecifiedSizes == {Unspecified, Whole(1), Frac(5, 2), Whole(3), Whole(MaxLen + 1)}

AspectRatios == {Frac(1, 4), Frac(1, 2), Whole(1), Whole(2), Whole(4)}

NoAlignment == [width |-> 0, height |-> 0]

Alignments == {NoAlignment, [width |-> 8, height |-> 4], [width |-> 2, height |-> 3]}

SizeRequests ==
    [maxWidth : MaxSizes, maxHeight : MaxSizes, originalAspectRatio : AspectRatios,
     specifiedWidth : SpecifiedSizes, specifiedHeight : SpecifiedSizes,
     alignment : Alignments]

\* Before the first call: none of the two functions returns 0 by 0.
NoSize == [width |-> 0, height |-> 0]

NoUnaligned == [width |-> <<0, 1>>, height |-> <<0, 1>>]

NoRequest ==
    [maxWidth |-> Whole(1), maxHeight |-> Whole(1), originalAspectRatio |-> Whole(1),
     specifiedWidth |-> Unspecified, specifiedHeight |-> Unspecified,
     alignment |-> NoAlignment]

SizeInit ==
    /\ sizeArgs \in SizeRequests
    /\ sizeResult = NoSize
    /\ sizeAligned = NoSize
    /\ sizeUnaligned = NoUnaligned

\* One call of each calculateImageSize with the same argument; the one in
\* utils/image.ts does not read the alignment.
CallCalculateImageSize ==
    /\ sizeResult = NoSize /\ sizeAligned = NoSize
    /\ sizeResult' = calculateImageSize(sizeArgs)
    /\ sizeAligned' = calculateImageSizeWithAlignment(sizeArgs)
    /\ sizeUnaligned' = UnalignedSize(sizeArgs)
    /\ UNCHANGED sizeArgs

----------------------------------------------------------------------------
(* ITerm2Image: the render / cleanup layout effect *)

\* terminalDimensions.cellWidth and cellHeight: the provider's default cell
cellWidth == 6

cellHeight == 12

\* Box sizes run over 1..MaxBox cells each way, columns over 0..MaxCol.
MaxBox == 2

MaxCol == 1

Positions == [col : 0..MaxCol, width : 1..MaxBox, height : 1..MaxBox]

\* Pixel sizes of the source images: one cell, one cell wide and two high
\* doubled, and two cells side by side.
SourceImages ==
    {[width |-> 6, height |-> 12], [width |-> 12, height |-> 24],
     [width |-> 12, height |-> 12]}

NoPosition == [col |-> 0, width |-> 0, height |-> 0]

NoBox == [col |-> 0, width |-> 0, height |-> 0]

\* cursorForward(count) = ESC [ count C, and a terminal moves by one for a
\* count of 0: the column reached after "\r".
cursorForward(count) == IF count = 0 THEN 1 ELSE count

\* The cells a payload covers: the terminal draws it at the size it
\* declares (width=..px;height=..px), from the cursor.
PaintedCells(col, output) ==
    {<<r, cursorForward(col) + c>> :
        r \in 0..(Ceil(Frac(output.height, cellHeight)) - 1),
        c \in 0..(Ceil(Frac(output.width, cellWidth)) - 1)}

\* The cells the cleanup writes blanks to: box.height rows of box.width
\* spaces, each after "\r" and cursorForward(box.col).
BoxCells(box) ==
    {<<r, cursorForward(box.col) + c>> :
        r \in 0..(box.height - 1), c \in 0..(box.width - 1)}

\* generateImageOutput up to setImageOutput: the payload declares the
\* size calculateImageSize gives for the box; actualSizeInCells is taken
\* from the info of image.png().toBuffer(), the image as it was read.
ITerm2Output(box, source) ==
    calculateImageSize(
        [maxWidth |-> Whole(box.width * cellWidth),
         maxHeight |-> Whole(box.height * cellHeight),
         originalAspectRatio |-> Frac(source.width, source.height),
         specifiedWidth |-> Unspecified, specifiedHeight |-> Unspecified,
         alignment |-> NoAlignment])

ITerm2ActualSizeInCells(source) ==
    [width |-> Ceil(Frac(source.width, cellWidth)),
     height |-> Ceil(Frac(source.height, cellHeight))]

ProcessInit == procState = "running"

ITerm2Init ==
    /\ itMounted = FALSE
    /\ componentPosition = NoPosition
    /\ generating = NoSize
    /\ imageOutput = NoSize
    /\ actualSizeInCells = NoSize
    /\ renderTimeout = FALSE
    /\ previousRenderBoundingBox = NoBox
    /\ exitHandlers = FALSE
    /\ shouldCleanupRef = TRUE
    /\ screen = {}

\* The function the layout effect returned, run before the next effect or
\* at unmount: nothing more when shouldCleanupRef is false, nothing to
\* erase when the timer never fired.
ITerm2Cleanup(cleanupAllowed) ==
    IF ~cleanupAllowed \/ previousRenderBoundingBox = NoBox
    THEN screen
    ELSE screen \ BoxCells(previousRenderBoundingBox)

\* A commit of ITerm2Image: the cleanup of the last layout effect, then
\* the layout effect of this render, which returns at once without
\* imageOutput and otherwise registers the handlers and starts the timer.
ITerm2Commit(output) ==
    /\ screen' = ITerm2Cleanup(shouldCleanupRef)
    /\ previousRenderBoundingBox' = NoBox
    /\ renderTimeout' = (output # NoSize)
    /\ exitHandlers' = (output # NoSize)

\* Mount and first measure of the box: no imageOutput yet, and the image
\* effect calls generateImageOutput. A new instance mounts once the call
\* of the instance before it has ended.
ITerm2Mount(pos) ==
    /\ procState = "running"
    /\ ~itMounted /\ generating = NoSize
    /\ itMounted' = TRUE
    /\ componentPosition' = pos
    /\ generating' = [width |-> pos.width, height |-> pos.height]
    /\ imageOutput' = NoSize
    /\ actualSizeInCells' = NoSize
    /\ shouldCleanupRef' = TRUE
    /\ ITerm2Commit(NoSize)

\* Ink lays the box out elsewhere or at another size: a re-render, and
\* with another size the image effect calls generateImageOutput again.
ITerm2PositionChanged(pos) ==
    /\ procState = "running"
    /\ itMounted /\ pos # componentPosition
    /\ LET resized == pos.width # componentPosition.width
                      \/ pos.height # componentPosition.height
       IN  /\ resized => generating = NoSize
           /\ generating' = IF resized
                            THEN [width |-> pos.width, height |-> pos.height]
                            ELSE generating
    /\ componentPosition' = pos
    /\ ITerm2Commit(imageOutput)
    /\ UNCHANGED <<itMounted, imageOutput, actualSizeInCells, shouldCleanupRef>>

\* Any other re-render: the layout effect has no dependency list.
ITerm2Rerender ==
    /\ procState = "running"
    /\ itMounted
    /\ ITerm2Commit(imageOutput)
    /\ UNCHANGED <<itMounted, componentPosition, generating, imageOutput,
                   actualSizeInCells, shouldCleanupRef>>

\* generateImageOutput runs to its end: setActualSizeInCells and
\* setImageOutput, and the commit that follows. Nothing is set on an
\* unmounted instance.
ITerm2ImageReady(source) ==
    /\ procState = "running"
    /\ generating # NoSize
    /\ generating' = NoSize
    /\ IF itMounted
       THEN /\ actualSizeInCells' = ITerm2ActualSizeInCells(source)
            /\ imageOutput' = ITerm2Output(generating, source)
            /\ ITerm2Commit(imageOutput')
       ELSE UNCHANGED <<actualSizeInCells, imageOutput, screen,
                        previousRenderBoundingBox, renderTimeout, exitHandlers>>
    /\ UNCHANGED <<itMounted, componentPosition, shouldCleanupRef>>

\* The render timer fires: the payload is written at the component's
\* position and the bounding box is recorded from actualSizeInCells.
ITerm2RenderTimeout ==
    /\ procState = "running"
    /\ renderTimeout
    /\ renderTimeout' = FALSE
    /\ screen' = screen \cup PaintedCells(componentPosition.col, imageOutput)
    /\ previousRenderBoundingBox' =
          [col |-> componentPosition.col,
           width |-> actualSizeInCells.width,
           height |-> actualSizeInCells.height]
    /\ UNCHANGED <<itMounted, componentPosition, generating, imageOutput,
                   actualSizeInCells, exitHandlers, shouldCleanupRef>>

ITerm2Unmount ==
    /\ procState = "running"
    /\ itMounted
    /\ itMounted' = FALSE
    /\ screen' = ITerm2Cleanup(shouldCleanupRef)
    /\ previousRenderBoundingBox' = NoBox
    /\ renderTimeout' = FALSE
    /\ exitHandlers' = FALSE
    /\ componentPosition' = NoPosition
    /\ imageOutput' = NoSize
    /\ actualSizeInCells' = NoSize
    /\ UNCHANGED <<generating, shouldCleanupRef>>

\* exit, SIGINT or SIGTERM: onExit / onSigInt, where registered, clear
\* shouldCleanupRef (onSigInt then calls process.exit()); Ink's exit hook
\* unmounts the tree, which runs the layout effect's cleanup; the process
\* ends.
ITerm2ProcessSignal(sig) ==
    /\ procState = "running"
    /\ procState' = "exited"
    /\ shouldCleanupRef' = IF exitHandlers THEN FALSE ELSE shouldCleanupRef
    /\ screen' = IF itMounted THEN ITerm2Cleanup(shouldCleanupRef') ELSE screen
    /\ UNCHANGED <<itMounted, componentPosition, generating, imageOutput,
                   actualSizeInCells, renderTimeout, previousRenderBoundingBox,
                   exitHandlers>>

\* `\x1b_Ga=p,i=<id>,p=1,C=1,q=2\x1b\\`, with placementId 1
PlaceCommand(imageId) ==
    [cmd |-> "place", keys |-> "a,i,p,C,q", id |-> imageId, m |-> 0, p |-> 1,
     from |-> 0, to |-> 0]

\* `\x1b_Ga=d,d=I,i=<id>\x1b\\`
DeleteCommand(imageId) ==
    [cmd |-> "delete", keys |-> "a,d,i", id |-> imageId, m |-> 0, p |-> 0,
     from |-> 0, to |-> 0]

\* The placement effect, which runs in every commit: nothing without an
\* imageId (an imageId was given a componentPosition to be loaded).
PlacementEffect(imageId) ==
    IF imageId = NoImage THEN <<>> ELSE <<PlaceCommand(imageId)>>

\* The cleanup of the [imageId, stdout] effect, as the command it writes
CleanupWrites(oldImageId, newImageId) ==
    IF KittyDepsChanged(oldImageId, newImageId) /\ oldImageId # NoImage
    THEN <<DeleteCommand(oldImageId)>>
    ELSE <<>>

\* What a commit of KittyImage writes: the cleanups run before the effects.
CommitWrites(oldImageId, newImageId) ==
    CleanupWrites(oldImageId, newImageId) \o PlacementEffect(newImageId)

\* setHasError(value): an instance that is mounted and has another value
\* renders again, and the commit writes.
SetHasError(k, value) ==
    /\ kHasError' = IF kMounted[k] THEN [kHasError EXCEPT ![k] = value] ELSE kHasError
    /\ written' = IF kMounted[k] /\ kHasError[k] # value
                  THEN CommitWrites(kImageId[k], kImageId[k])
                  ELSE <<>>

\* The lengths of base64Data in the life of a component: less than a
\* chunk, one chunk, and more than two.
DataLengths == {4, chunkSize, 2 * chunkSize + 4}

\* The most chunks one of these is written in
MaxWrites == 4

\* The ids of completeIds that a component has as its imageId: no command
\* names any other again, an id is not given out twice.
StillNamed == completeIds \cap {kImageId[k] : k \in KittyComponents}

KittyLifeInit ==
    /\ kHasError = [k \in KittyComponents |-> FALSE]
    /\ written = <<>>
    /\ completeIds = {}

KittyLifeMount(k, ready) ==
    /\ KittyMount(k, ready)
    /\ kHasError' = [kHasError EXCEPT ![k] = FALSE]
    /\ written' = CommitWrites(NoImage, NoImage)
    /\ completeIds' = StillNamed

KittyLifeParamsChanged(k, ready) ==
    /\ KittyParamsChanged(k, ready)
    /\ written' = CommitWrites(kImageId[k], kImageId[k])
    /\ completeIds' = StillNamed
    /\ UNCHANGED kHasError

\* if (!image) { setHasError(true); return; }  setHasError(false);
KittyLifeFetched(k, ok) ==
    /\ KittyFetched(k, ok)
    /\ SetHasError(k, ~ok)
    /\ completeIds' = StillNamed

\* generateKittyId() in the try block: catch { setHasError(true); return; }
KittyLifeGenerateId(k) ==
    /\ KittyGenerateId(k)
    /\ IF generateId(currentId, freedIds).threw
       THEN SetHasError(k, TRUE)
       ELSE UNCHANGED kHasError /\ written' = <<>>
    /\ completeIds' = StillNamed

KittyLifeTransmitted_setsIdAtOnce(k, id, length, wrote) ==
    /\ id \in kEncoding[k]
    /\ wrote \in 0..Len(KittyChunks(length, id))
    /\ kEncoding' = [kEncoding EXCEPT ![k] = @ \ {id}]
    /\ kImageId' = IF kMounted[k] THEN [kImageId EXCEPT ![k] = id] ELSE kImageId
    /\ deletedIds' = IF kMounted[k] THEN KittyCommit(kImageId[k], id) ELSE deletedIds
    /\ UNCHANGED <<kMounted, kFetching, kMeta, allocVars, kHasError>>
    /\ completeIds' = IF wrote = Len(KittyChunks(length, id))
                      THEN StillNamed \cup {id} ELSE StillNamed
    /\ written' = SubSeq(KittyChunks(length, id), 1, wrote)
                  \o (IF kMounted[k] THEN CommitWrites(kImageId[k], id) ELSE <<>>)

\* png().toBuffer() resolved or rejected, and the chunk loop: wrote is the
\* number of chunks written before a throw (0 for a rejected toBuffer),
\* all of them when nothing throws; then setImageId(imageId), or the catch.
KittyLifeTransmitted(k, id, length, wrote) ==
    /\ id \in kEncoding[k]
    /\ wrote \in 0..Len(KittyChunks(length, id))
    /\ KittyTransmitted(k, id, wrote = Len(KittyChunks(length, id)))
    /\ completeIds' = IF wrote = Len(KittyChunks(length, id))
                      THEN StillNamed \cup {id} ELSE StillNamed
    /\ IF wrote = Len(KittyChunks(length, id))
       THEN /\ written' = KittyChunks(length, id)
                          \o (IF kMounted[k] THEN CommitWrites(kImageId[k], id) ELSE <<>>)
            /\ UNCHANGED kHasError
       ELSE /\ kHasError' = IF kMounted[k] THEN [kHasError EXCEPT ![k] = TRUE]
                            ELSE kHasError
            /\ written' = SubSeq(KittyChunks(length, id), 1, wrote)
                          \o (IF kMounted[k] /\ ~kHasError[k]
                              THEN CommitWrites(kImageId[k], kImageId[k]) ELSE <<>>)

KittyLifeRerender_runsImageEffect(k) ==
    /\ KittyParamsChanged(k, TRUE)
    /\ written' = CommitWrites(kImageId[k], kImageId[k])
    /\ completeIds' = StillNamed
    /\ UNCHANGED kHasError

\* A re-render with src, width, height, the box size and
\* terminalDimensions as they were: the image effect does not run.
KittyLifeRerender(k) ==
    /\ KittyRerender(k)
    /\ written' = CommitWrites(kImageId[k], kImageId[k])
    /\ completeIds' = StillNamed
    /\ UNCHANGED kHasError

KittyLifeUnmount(k) ==
    /\ KittyUnmount(k)
    /\ written' = CleanupWrites(kImageId[k], NoImage)
    /\ kHasError' = [kHasError EXCEPT ![k] = FALSE]
    /\ completeIds' = StillNamed

\* exit, SIGINT or SIGTERM: KittyImage registers no handler. Ink's exit
\* hook unmounts the tree; the cleanups of the [imageId, stdout] effects
\* run where the unmount's passive effects are flushed before the process
\* ends, and nothing is left to run where they are not.
KittyProcessSignal(sig, flushed) ==
    /\ procState = "running"
    /\ procState' = "exited"
    /\ IF flushed
       THEN /\ kMounted' = [k \in KittyComponents |-> FALSE]
            /\ deletedIds' = deletedIds \cup
                  ({kImageId[k] : k \in {j \in KittyComponents : kMounted[j]}} \ {NoImage})
            /\ kImageId' = [k \in KittyComponents |-> NoImage]
       ELSE UNCHANGED <<kMounted, deletedIds, kImageId>>
    /\ UNCHANGED <<kFetching, kMeta, kEncoding, allocVars>>

RECURSIVE DeleteEach(_)
\* The delete commands of the cleanups that ran, one per image
DeleteEach(ids) ==
    IF ids = {} THEN <<>>
    ELSE LET id == CHOOSE x \in ids : \A y \in ids : x <= y
         IN  <<DeleteCommand(id)>> \o DeleteEach(ids \ {id})

KittyLifeProcessSignal(sig, flushed) ==
    /\ KittyProcessSignal(sig, flushed)
    /\ written' = DeleteEach(deletedIds' \ deletedIds)
    /\ kHasError' = IF flushed THEN [k \in KittyComponents |-> FALSE] ELSE kHasError
    /\ completeIds' = StillNamed

----------------------------------------------------------------------------
(* TerminalInfoProvider: the probe of the terminal (context/TerminalInfo.tsx)
   and queryEscapeSequence *)

\* process.stdout.columns and process.stdout.rows
columns == 4

rows == 2

\* A query gathers at most MaxChunks data events; a process mounts a
\* TerminalInfoProvider at most MaxMounts times.
MaxChunks == 2

MaxMounts == 2

\* The data events a terminal sends: a report "\x1b[<code>;<height>;<width>t",
\* the reply "\x1b_Gi=31;OK\x1b\\" to the Kitty query (code 1 for OK), and
\* the device attributes "\x1b[?62;4c" or "\x1b[?62c" (code 1 with the
\* attribute 4).
Chunk(kind, code, height, width) ==
    [kind |-> kind, code |-> code, height |-> height, width |-> width]

ReplyChunks ==
    {Chunk("report", 6, 24, 12), Chunk("report", 4, 48, 18),
     Chunk("kitty", 1, 0, 0),
     Chunk("da", 1, 0, 0), Chunk("da", 0, 0, 0)}

\* resolve(runningReply.length > 0 ? runningReply : undefined)
NoReply == <<>>

NoCell == [width |-> <<0, 1>>, height |-> <<0, 1>>]

\* response.match(/\x1b\[<code>;(\d+);(\d+);?t/): the first report with
\* that code, height before width
ReportsOf(response, code) ==
    {i \in 1..Len(response) : response[i].kind = "report" /\ response[i].code = code}

FirstReport(response, code) ==
    response[CHOOSE i \in ReportsOf(response, code) :
                 \A j \in ReportsOf(response, code) : i <= j]

\* getCellPixelDimensions, the "\x1b[16t" part: NoCell stands for the throw
CellFromCellReport(response) ==
    IF response = NoReply \/ ReportsOf(response, 6) = {} THEN NoCell
    ELSE [width  |-> Whole(FirstReport(response, 6).width),
          height |-> Whole(FirstReport(response, 6).height)]

\* getCellPixelDimensions, the "\x1b[14t" part: NoCell stands for undefined
CellFromWindowReport(response) ==
    IF response = NoReply \/ ReportsOf(response, 4) = {} THEN NoCell
    ELSE [width  |-> Over(Whole(FirstReport(response, 4).width), Whole(columns)),
          height |-> Over(Whole(FirstReport(response, 4).height), Whole(rows))]

\* if (!cellDimensions) cellDimensions = { width: 6, height: 12 }
CellOrDefault(cell) ==
    IF cell = NoCell
    THEN [width |-> Whole(cellWidth), height |-> Whole(cellHeight)]
    ELSE cell

TerminalDimensionsOf(cell) ==
    [viewportWidth  |-> Times(CellOrDefault(cell).width, Whole(columns)),
     viewportHeight |-> Times(CellOrDefault(cell).height, Whole(rows)),
     cellWidth      |-> CellOrDefault(cell).width,
     cellHeight     |-> CellOrDefault(cell).height]

NoDimensions ==
    [viewportWidth |-> <<0, 1>>, viewportHeight |-> <<0, 1>>,
     cellWidth |-> <<0, 1>>, cellHeight |-> <<0, 1>>]

KittyReplyOK_undefinedIsOK(response) ==
    response = NoReply \/ \E i \in 1..Len(response) :
                              response[i].kind = "kitty" /\ response[i].code = 1

\* kittyResponse && kittyResponse.includes("OK")
KittyReplyOK(response) ==
    /\ response # NoReply
    /\ \E i \in 1..Len(response) : response[i].kind = "kitty" /\ response[i].code = 1

\* deviceAttributesResponse && endsWith("c") && one of the fields between
\* semicolons is "4": the last chunk is a device attributes reply, and of
\* the chunks of ReplyChunks only the device attributes with 4 have it.
DeviceAttributesHaveSixel(response) ==
    /\ response # NoReply
    /\ response[Len(response)].kind = "da"
    /\ \E i \in 1..Len(response) : response[i].kind = "da" /\ response[i].code = 1

\* supportsITerm2: the version tests of iTerm.app, WezTerm and rio are the
\* host's versionOk; KONSOLE_VERSION is read when TERM_PROGRAM is neither
\* iTerm.app nor WezTerm, and "220400" passes its test.
supportsITerm2(supportsSixelGraphics) ==
    IF termProgram = "iTerm.app" THEN hostEnv.versionOk
    ELSE IF termProgram = "WezTerm" THEN hostEnv.versionOk
    ELSE IF Truthy(konsoleVersion) THEN konsoleVersion = "220400"
    ELSE IF termProgram = "rio" THEN hostEnv.versionOk
    ELSE IF termProgram = "vscode" THEN supportsSixelGraphics
    ELSE FALSE

ProbedCapabilities(response) ==
    [supportsUnicode        |-> hostEnv.unicode,
     supportsColor          |-> hostEnv.color,
     supportsKittyGraphics  |-> kittySupport,
     supportsSixelGraphics  |-> DeviceAttributesHaveSixel(response),
     supportsITerm2Graphics |-> supportsITerm2(DeviceAttributesHaveSixel(response))]

\* The hosts: a terminal with nothing to add, VS Code, Konsole, and
\* iTerm.app 3 in a process whose standard input is no terminal.
HostEnvs ==
    {[TERM_PROGRAM |-> Undefined, KONSOLE_VERSION |-> Undefined, isTTY |-> TRUE,
      versionOk |-> FALSE, unicode |-> FALSE, color |-> FALSE],
     [TERM_PROGRAM |-> "vscode", KONSOLE_VERSION |-> Undefined, isTTY |-> TRUE,
      versionOk |-> FALSE, unicode |-> TRUE, color |-> TRUE],
     [TERM_PROGRAM |-> Undefined, KONSOLE_VERSION |-> "220400", isTTY |-> TRUE,
      versionOk |-> FALSE, unicode |-> TRUE, color |-> FALSE],
     [TERM_PROGRAM |-> "iTerm.app", KONSOLE_VERSION |-> Undefined, isTTY |-> FALSE,
      versionOk |-> TRUE, unicode |-> TRUE, color |-> TRUE]}

NoHost ==
    [TERM_PROGRAM |-> Undefined, KONSOLE_VERSION |-> Undefined, isTTY |-> TRUE,
     versionOk |-> FALSE, unicode |-> FALSE, color |-> FALSE]

ProbeIdle ==
    /\ provMounted = FALSE
    /\ terminalDimensions = NoDimensions
    /\ cellDimensions = NoCell
    /\ kittySupport = FALSE
    /\ hostEnv = NoHost
    /\ queryVariant = "process"
    /\ probeStep = "idle"
    /\ runningReply = NoReply
    /\ wasRaw = FALSE
    /\ stdinIsRaw = FALSE
    /\ stdinClosed = FALSE
    /\ rawModeEnabledCount = 0
    /\ consumerRaw = FALSE
    /\ replied = FALSE
    /\ probeRuns = 0

\* The process before anything is rendered. Ink's setRawMode throws where
\* standard input is no terminal, so the variant that takes it runs on a
\* terminal.
ProbeInit ==
    /\ provMounted = FALSE
    /\ terminalDimensions = NoDimensions
    /\ cellDimensions = NoCell
    /\ kittySupport = FALSE
    /\ hostEnv \in HostEnvs
    /\ termProgram = hostEnv.TERM_PROGRAM
    /\ konsoleVersion = hostEnv.KONSOLE_VERSION
    /\ queryVariant \in {"process", "ink"}
    /\ queryVariant = "ink" => hostEnv.isTTY
    /\ probeStep = "idle"
    /\ runningReply = NoReply
    /\ wasRaw = FALSE
    /\ stdinIsRaw = FALSE
    /\ stdinClosed = FALSE
    /\ rawModeEnabledCount = 0
    /\ consumerRaw = FALSE
    /\ replied = FALSE
    /\ probeRuns = 0

\* Ink's setRawMode, which useInput and useStdin().setRawMode reach: the
\* first caller turns raw mode on, the last one to leave turns it off.
InkSetRawMode(raw, value) ==
    IF value
    THEN [isRaw |-> IF raw.count = 0 THEN TRUE ELSE raw.isRaw, count |-> raw.count + 1]
    ELSE [isRaw |-> IF raw.count = 1 THEN FALSE ELSE raw.isRaw, count |-> raw.count - 1]

\* stdin.setRawMode(value) under if (stdin.isTTY)
StdinSetRawMode(raw, value) ==
    IF hostEnv.isTTY THEN [isRaw |-> value, count |-> raw.count] ELSE raw

\* The head of queryEscapeSequence, before the listeners are added: what
\* it captures in wasRaw and what it makes of the input mode.
EnterRawMode(raw) ==
    IF queryVariant = "ink" THEN InkSetRawMode(raw, TRUE)
    ELSE IF ~raw.isRaw THEN StdinSetRawMode(raw, TRUE)
    ELSE raw

\* restoreState, as far as the input mode goes
restoreState(raw, captured) ==
    IF queryVariant = "ink" THEN InkSetRawMode(raw, FALSE)
    ELSE StdinSetRawMode(raw, captured)

\* The promise executor of queryEscapeSequence: message is on its way and
\* the response timer runs.
SendQuery(step, raw) ==
    /\ probeStep' = step
    /\ runningReply' = NoReply
    /\ wasRaw' = (queryVariant = "process" /\ raw.isRaw)
    /\ stdinIsRaw' = EnterRawMode(raw).isRaw
    /\ rawModeEnabledCount' = EnterRawMode(raw).count

ContinueProbe_noViewportQuery(response, raw) ==
    CASE probeStep = "cellSize" ->
           /\ cellDimensions' = CellFromCellReport(response)
           /\ SendQuery("kitty", raw)
           /\ UNCHANGED <<kittySupport, capsReady, terminalCapabilities,
                          terminalDimensions>>
      [] probeStep = "windowSize" ->
           /\ cellDimensions' = CellFromWindowReport(response)
           /\ SendQuery("kitty", raw)
           /\ UNCHANGED <<kittySupport, capsReady, terminalCapabilities,
                          terminalDimensions>>
      [] probeStep = "kitty" ->
           /\ kittySupport' = KittyReplyOK(response)
           /\ SendQuery("deviceAttributes", raw)
           /\ UNCHANGED <<cellDimensions, capsReady, terminalCapabilities,
                          terminalDimensions>>
      [] probeStep = "deviceAttributes" ->
           /\ probeStep' = "idle"
           /\ runningReply' = NoReply
           /\ wasRaw' = FALSE
           /\ stdinIsRaw' = raw.isRaw
           /\ rawModeEnabledCount' = raw.count
           /\ IF provMounted
              THEN /\ capsReady' = TRUE
                   /\ terminalCapabilities' = ProbedCapabilities(response)
                   /\ terminalDimensions' = TerminalDimensionsOf(cellDimensions)
              ELSE UNCHANGED <<capsReady, terminalCapabilities, terminalDimensions>>
           /\ cellDimensions' = NoCell
           /\ kittySupport' = FALSE

\* The code that follows the await of the query in flight, up to the next
\* await or the end of queryTerminalInfo; raw is the input mode as
\* restoreState left it.
ContinueProbe(response, raw) ==
    CASE probeStep = "cellSize" ->
           /\ cellDimensions' = CellFromCellReport(response)
           /\ IF CellFromCellReport(response) = NoCell
              THEN SendQuery("windowSize", raw)
              ELSE SendQuery("kitty", raw)
           /\ UNCHANGED <<kittySupport, capsReady, terminalCapabilities,
                          terminalDimensions>>
      [] probeStep = "windowSize" ->
           /\ cellDimensions' = CellFromWindowReport(response)
           /\ SendQuery("kitty", raw)
           /\ UNCHANGED <<kittySupport, capsReady, terminalCapabilities,
                          terminalDimensions>>
      [] probeStep = "kitty" ->
           /\ kittySupport' = KittyReplyOK(response)
           /\ SendQuery("deviceAttributes", raw)
           /\ UNCHANGED <<cellDimensions, capsReady, terminalCapabilities,
                          terminalDimensions>>
      [] probeStep = "deviceAttributes" ->
           /\ probeStep' = "idle"
           /\ runningReply' = NoReply
           /\ wasRaw' = FALSE
           /\ stdinIsRaw' = raw.isRaw
           /\ rawModeEnabledCount' = raw.count
           /\ IF provMounted
              THEN /\ capsReady' = TRUE
                   /\ terminalCapabilities' = ProbedCapabilities(response)
                   /\ terminalDimensions' = TerminalDimensionsOf(cellDimensions)
              ELSE UNCHANGED <<capsReady, terminalCapabilities, terminalDimensions>>
           /\ cellDimensions' = NoCell
           /\ kittySupport' = FALSE

\* A query ends: restoreState(), resolve(response), and the caller goes on.
QueryResolved(response) ==
    ContinueProbe(response,
                  restoreState([isRaw |-> stdinIsRaw, count |-> rawModeEnabledCount],
                               wasRaw))

selRest == <<mounted, protocolProp, protocol, updateQueue, pc, resetScheduled,
             lastSignal, falseCount, resetInBatch, resetBy>>

\* A TerminalInfoProvider mounts: useState(undefined), and its effect
\* calls queryTerminalInfo, which sends the first query. The calls of an
\* earlier provider have ended.
ProviderMount ==
    /\ ~provMounted /\ probeStep = "idle" /\ probeRuns < MaxMounts
    /\ provMounted' = TRUE
    /\ probeRuns' = probeRuns + 1
    /\ replied' = FALSE
    /\ cellDimensions' = NoCell
    /\ kittySupport' = FALSE
    /\ SendQuery("cellSize", [isRaw |-> stdinIsRaw, count |-> rawModeEnabledCount])
    /\ UNCHANGED <<capsReady, terminalCapabilities, terminalDimensions, hostEnv,
                   queryVariant, stdinClosed, consumerRaw, selRest>>

\* The provider unmounts: its state and the context value go with it; a
\* queryTerminalInfo in flight goes on.
ProviderUnmount ==
    /\ provMounted
    /\ provMounted' = FALSE
    /\ capsReady' = FALSE
    /\ terminalCapabilities' = NoCapabilities
    /\ terminalDimensions' = NoDimensions
    /\ UNCHANGED <<cellDimensions, kittySupport, hostEnv, queryVariant, probeStep,
                   runningReply, wasRaw, stdinIsRaw, stdinClosed, rawModeEnabledCount,
                   consumerRaw, replied, probeRuns, selRest>>

\* onData: the timers are cleared, the chunk is appended and the 50 ms
\* timer starts again.
QueryOnData(chunk) ==
    /\ probeStep # "idle" /\ ~stdinClosed
    /\ Len(runningReply) < MaxChunks
    /\ runningReply' = Append(runningReply, chunk)
    /\ replied' = TRUE
    /\ UNCHANGED <<provMounted, capsReady, terminalCapabilities, terminalDimensions,
                   cellDimensions, kittySupport, hostEnv, queryVariant, probeStep,
                   wasRaw, stdinIsRaw, stdinClosed, rawModeEnabledCount, consumerRaw,
                   probeRuns, selRest>>

\* The 100 ms response timer fires: no data has come.
QueryResponseTimeout ==
    /\ probeStep # "idle" /\ runningReply = NoReply
    /\ QueryResolved(NoReply)
    /\ UNCHANGED <<provMounted, hostEnv, queryVariant, stdinClosed, consumerRaw,
                   replied, probeRuns, selRest>>

\* The 50 ms timer that follows the last chunk fires.
QueryRepliesTimeout ==
    /\ probeStep # "idle" /\ runningReply # NoReply
    /\ QueryResolved(runningReply)
    /\ UNCHANGED <<provMounted, hostEnv, queryVariant, stdinClosed, consumerRaw,
                   replied, probeRuns, selRest>>

\* onClose: standard input closes under the query in flight.
QueryOnClose ==
    /\ probeStep # "idle" /\ ~stdinClosed
    /\ stdinClosed' = TRUE
    /\ QueryResolved(runningReply)
    /\ UNCHANGED <<provMounted, hostEnv, queryVariant, consumerRaw, replied,
                   probeRuns, selRest>>

\* Another consumer of standard input, a useInput hook, mounts (value
\* TRUE) or unmounts: its effect calls Ink's setRawMode.
ConsumerSetRawMode(value) ==
    /\ hostEnv.isTTY /\ consumerRaw # value
    /\ consumerRaw' = value
    /\ stdinIsRaw' =
         InkSetRawMode([isRaw |-> stdinIsRaw, count |-> rawModeEnabledCount], value).isRaw
    /\ rawModeEnabledCount' =
         InkSetRawMode([isRaw |-> stdinIsRaw, count |-> rawModeEnabledCount], value).count
    /\ UNCHANGED <<provMounted, capsReady, terminalCapabilities, terminalDimensions,
                   cellDimensions, kittySupport, hostEnv, queryVariant, probeStep,
                   runningReply, wasRaw, stdinClosed, replied, probeRuns, selRest>>

----------------------------------------------------------------------------
(* queryEscapeSequence: one exchange and its two timers *)

\* const responseTimeout = 100
responseTimeout == 100

\* const timeoutBetweenReplies = 50
timeoutBetweenReplies == 50

\* The step of the clock, the time the clock stops at, and the number of
\* data events within it
Tick == 10

MaxTime == 300

MaxArrivals == 3

NoTimer == 0 - 1

\* The chunks that arrive while the timers are watched
TimedChunks == {Chunk("kitty", 1, 0, 0), Chunk("da", 1, 0, 0)}

\* setTimeout(callback, ms), as the time the callback is due
setTimeout(ms) == clock + ms

clearTimeout_leavesItPending(timerId) == timerId

\* if (id !== undefined) clearTimeout(id): the timer is no longer pending
clearTimeout(timerId) == NoTimer

Due(timerId) == timerId # NoTimer /\ clock >= timerId

ExchangeInit ==
    /\ clock = 0
    /\ started = FALSE
    /\ responseTimeoutId = NoTimer
    /\ timeoutBetweenRepliesId = NoTimer
    /\ onDataListening = FALSE
    /\ onCloseListening = FALSE
    /\ resolved = <<>>

exchangeRest == <<provMounted, terminalDimensions, cellDimensions, kittySupport, hostEnv,
                  queryVariant, probeStep, consumerRaw, replied, probeRuns>>

\* The promise executor: raw mode, the listeners, the response timer,
\* stdout.write(message).
StartExchange ==
    /\ ~started
    /\ started' = TRUE
    /\ runningReply' = NoReply
    /\ wasRaw' = (queryVariant = "process" /\ stdinIsRaw)
    /\ stdinIsRaw' = EnterRawMode([isRaw |-> stdinIsRaw, count |-> rawModeEnabledCount]).isRaw
    /\ rawModeEnabledCount' =
          EnterRawMode([isRaw |-> stdinIsRaw, count |-> rawModeEnabledCount]).count
    /\ onDataListening' = TRUE
    /\ onCloseListening' = TRUE
    /\ responseTimeoutId' = setTimeout(responseTimeout)
    /\ UNCHANGED <<clock, timeoutBetweenRepliesId, resolved, stdinClosed, exchangeRest>>

\* restoreState(); resolve(value): pendingResponse and pendingReplies are
\* the two timers as they are when the callback runs (a timer that has
\* fired is not pending).
RestoreAndResolve(value, pendingResponse, pendingReplies) ==
    /\ stdinIsRaw' =
          restoreState([isRaw |-> stdinIsRaw, count |-> rawModeEnabledCount], wasRaw).isRaw
    /\ rawModeEnabledCount' =
          restoreState([isRaw |-> stdinIsRaw, count |-> rawModeEnabledCount], wasRaw).count
    /\ onDataListening' = FALSE
    /\ onCloseListening' = FALSE
    /\ responseTimeoutId' = IF pendingResponse = NoTimer THEN NoTimer
                            ELSE clearTimeout(pendingResponse)
    /\ timeoutBetweenRepliesId' = IF pendingReplies = NoTimer THEN NoTimer
                                  ELSE clearTimeout(pendingReplies)
    /\ resolved' = Append(resolved, value)

\* stdin emits data and onData listens: both timers are cleared, the chunk
\* is appended, the timer between replies starts.
onData(chunk) ==
    /\ onDataListening /\ ~stdinClosed
    /\ Len(runningReply) < MaxArrivals
    /\ responseTimeoutId' = IF responseTimeoutId = NoTimer THEN NoTimer
                            ELSE clearTimeout(responseTimeoutId)
    /\ runningReply' = Append(runningReply, chunk)
    /\ timeoutBetweenRepliesId' = setTimeout(timeoutBetweenReplies)
    /\ UNCHANGED <<clock, started, onDataListening, onCloseListening, resolved, wasRaw,
                   stdinIsRaw, rawModeEnabledCount, stdinClosed, exchangeRest>>

\* stdin emits close; onClose runs where it listens.
onClose ==
    /\ started /\ ~stdinClosed
    /\ stdinClosed' = TRUE
    /\ IF onCloseListening
       THEN RestoreAndResolve(runningReply, responseTimeoutId, timeoutBetweenRepliesId)
       ELSE UNCHANGED <<stdinIsRaw, rawModeEnabledCount, onDataListening,
                        onCloseListening, responseTimeoutId, timeoutBetweenRepliesId,
                        resolved>>
    /\ UNCHANGED <<clock, started, runningReply, wasRaw, exchangeRest>>

\* The callback of the response timer: restoreState(); resolve(undefined)
ResponseTimerFires ==
    /\ Due(responseTimeoutId)
    /\ RestoreAndResolve(NoReply, NoTimer, timeoutBetweenRepliesId)
    /\ UNCHANGED <<clock, started, runningReply, wasRaw, stdinClosed, exchangeRest>>

\* The callback of the timer between replies
RepliesTimerFires ==
    /\ Due(timeoutBetweenRepliesId)
    /\ RestoreAndResolve(runningReply, responseTimeoutId, NoTimer)
    /\ UNCHANGED <<clock, started, runningReply, wasRaw, stdinClosed, exchangeRest>>

\* Time passes; a timer runs its callback in the tick it is due in.
TickClock ==
    /\ started /\ clock < MaxTime
    /\ ~Due(responseTimeoutId) /\ ~Due(timeoutBetweenRepliesId)
    /\ clock' = clock + Tick
    /\ UNCHANGED <<started, responseTimeoutId, timeoutBetweenRepliesId, onDataListening,
                   onCloseListening, resolved, runningReply, wasRaw, stdinIsRaw,
                   rawModeEnabledCount, stdinClosed, exchangeRest>>

----------------------------------------------------------------------------
(* TerminalInfoProvider: the record of the queries of a call *)

ProbeLogInit ==
    /\ queryLog = <<>>
    /\ parsedReports = {}

\* The code of the report the query in flight asks for, 0 for the queries
\* that ask for no size.
ReportCodeOf(step) ==
    CASE step = "cellSize" -> 6
      [] step = "windowSize" -> 4
      [] OTHER -> 0

\* stdout.write(message) of a query: the step it begins is recorded.
LogWrittenQuery ==
    queryLog' = IF probeStep' # "idle" /\ probeStep' # probeStep
                THEN Append(IF probeStep = "idle" THEN <<>> ELSE queryLog, probeStep')
                ELSE queryLog

\* The reply the exchange in flight resolves with gave a size or did not.
LogParsedReport(response) ==
    parsedReports' =
        IF ReportCodeOf(probeStep) # 0 /\ ReportsOf(response, ReportCodeOf(probeStep)) # {}
        THEN parsedReports \cup {ReportCodeOf(probeStep)}
        ELSE parsedReports

LoggedProviderMount ==
    /\ ProviderMount
    /\ LogWrittenQuery
    /\ parsedReports' = {}

LoggedResponseTimeout ==
    /\ QueryResponseTimeout
    /\ LogWrittenQuery
    /\ LogParsedReport(NoReply)

LoggedRepliesTimeout ==
    /\ QueryRepliesTimeout
    /\ LogWrittenQuery
    /\ LogParsedReport(runningReply)

LoggedOnClose ==
    /\ QueryOnClose
    /\ LogWrittenQuery
    /\ LogParsedReport(runningReply)

----------------------------------------------------------------------------
(* KittyImage, ITerm2Image: the calls of generateImageOutput in flight *)

\* The most values src takes in the life of the component
MaxRequests == 4

NoneCommitted == 0

\* The mount: the image effect calls generateImageOutput for the first src.
LoadInit ==
    /\ request = 1
    /\ inFlight = {1}
    /\ loadedOk = {}
    /\ committed = NoneCommitted

\* src (or width, height, the box size) changes: the image effect runs
\* again and calls generateImageOutput(); the call before it goes on.
SourceChanged ==
    /\ request < MaxRequests
    /\ request' = request + 1
    /\ inFlight' = inFlight \cup {request + 1}
    /\ UNCHANGED <<loadedOk, committed>>

\* The call for request r runs to its end: setHasError(true) and return
\* where fetchImage gave nothing, setImageId / setImageOutput of the image
\* of r otherwise.
LoadCompletes(r, ok) ==
    /\ r \in inFlight
    /\ inFlight' = inFlight \ {r}
    /\ loadedOk' = IF ok THEN loadedOk \cup {r} ELSE loadedOk
    /\ committed' = IF ok THEN r ELSE committed
    /\ UNCHANGED request

----------------------------------------------------------------------------
(* Several image components and the stream they write to *)

StreamComponents == 1..2

\* ITerm2Image, KittyImage, and KittyImage with the placement effect of
\* its earlier variant.
Kinds == {"iterm2", "kitty", "kittyEarlier"}

\* The most commits of all the components together
MaxCycles == 4

NoPlace == [appHeight |-> 0, row |-> 0, col |-> 0, width |-> 0, height |-> 0]

\* What usePosition gives on a terminal of `rows` rows and `columns`
\* columns: a box on the second row, a box in an app two rows taller than
\* the terminal, a box that begins past the last column.
StreamPositions ==
    {[appHeight |-> rows, row |-> 1, col |-> 1, width |-> 1, height |-> 1],
     [appHeight |-> rows + 2, row |-> 0, col |-> 0, width |-> 2, height |-> 1],
     [appHeight |-> rows, row |-> 0, col |-> columns, width |-> 1, height |-> 1]}

NoBoundingBox == [row |-> 0, col |-> 0, width |-> 0, height |-> 0]

\* A stdout.write call: who wrote, what, and its count or image id.
Wrote(c, tok, n, m) == [by |-> c, tok |-> tok, n |-> n, m |-> m]

\* "\x1b7", cursorUp(appHeight - row), "\r", cursorForward(col)
MoveToAnchor(c, pos, col) ==
    <<Wrote(c, "cursorUp", pos.appHeight - pos.row, 0), Wrote(c, "cr", 0, 0),
      Wrote(c, "cursorForward", col, 0)>>

\* The callback of renderTimeout
PayloadWrites(c, t) ==
    <<Wrote(c, "save", 0, 0)>> \o MoveToAnchor(c, t.componentPosition, t.componentPosition.col)
    \o <<Wrote(c, "payload", t.cycle, 0), Wrote(c, "restore", 0, 0)>>

RECURSIVE BlankLines(_, _, _)
\* for (let i = 0; i < previousRenderBoundingBox.height; i++)
BlankLines(c, box, i) ==
    IF i >= box.height THEN <<>>
    ELSE <<Wrote(c, "cr", 0, 0), Wrote(c, "cursorForward", box.col, 0),
           Wrote(c, "blanks", box.width, 0), Wrote(c, "nl", 0, 0)>>
         \o BlankLines(c, box, i + 1)

\* The writes of the layout effect's cleanup, past its early returns
EraseWrites(c, pos, box) ==
    <<Wrote(c, "save", 0, 0), Wrote(c, "cursorUp", pos.appHeight - pos.row, 0)>>
    \o BlankLines(c, box, 0) \o <<Wrote(c, "restore", 0, 0)>>

\* The placement effect of KittyImage, past its early returns: with save
\* and restore in Kitty.tsx, with cursorDown and "\r" in the earlier
\* variant.
PlacementWrites(c, kind, pos, imageId) ==
    IF kind = "kitty"
    THEN <<Wrote(c, "save", 0, 0)>> \o MoveToAnchor(c, pos, pos.col)
         \o <<Wrote(c, "place", imageId, 0), Wrote(c, "restore", 0, 0)>>
    ELSE MoveToAnchor(c, pos, pos.col)
         \o <<Wrote(c, "place", imageId, 0),
              Wrote(c, "cursorDown", pos.appHeight - pos.row, 0), Wrote(c, "cr", 0, 0)>>

\* The chunk loop, as stdout.write calls
TransferWrites_awaitsAfterFirst(c, imageId, length) ==
    [i \in 1..(Len(KittyChunks(length, imageId)) - 1) |->
        Wrote(c, "transmit", KittyChunks(length, imageId)[i + 1].id,
              KittyChunks(length, imageId)[i + 1].m)]

TransferWrites(c, imageId, length) ==
    [i \in 1..Len(KittyChunks(length, imageId)) |->
        Wrote(c, "transmit", KittyChunks(length, imageId)[i].id,
              KittyChunks(length, imageId)[i].m)]

\* stdout.rows - appHeight + row < 0 || col > stdout.columns: return
ITerm2Skips(pos) ==
    rows - pos.appHeight + pos.row < 0 \/ pos.col > columns

StreamUnmounted(kind, cycle, lastPayload) ==
    [kind |-> kind, mounted |-> FALSE, componentPosition |-> NoPlace,
     imageOutput |-> NoSize, actualSizeInCells |-> NoSize, imageId |-> NoImage,
     hasError |-> FALSE, renderTimeouts |-> {}, superseded |-> {},
     effectPosition |-> NoPlace,
     previousRenderBoundingBox |-> NoBoundingBox, cycle |-> cycle,
     lastPayload |-> lastPayload]

CyclesLeft ==
    SumOver([c \in StreamComponents |-> comp[c].cycle], StreamComponents) < MaxCycles

StreamIdle ==
    /\ comp = [c \in StreamComponents |-> StreamUnmounted("iterm2", 0, 0)]
    /\ stdoutWrites = <<>>

StreamInit ==
    /\ \E kinds \in [StreamComponents -> Kinds] :
          comp = [c \in StreamComponents |-> StreamUnmounted(kinds[c], 0, 0)]
    /\ stdoutWrites = <<>>

\* clearTimeout(renderTimeout) in the cleanup of the layout effect
ClearedTimeouts_keepsThem(old) == old.renderTimeouts

ClearedTimeouts(old) ==
    IF old.effectPosition = NoPlace THEN old.renderTimeouts ELSE {}

\* The cleanup of the last layout effect of ITerm2Image, where it returned
\* one: blanks over the box its timer recorded.
LayoutCleanupWrites(c, old) ==
    IF old.effectPosition = NoPlace \/ old.previousRenderBoundingBox = NoBoundingBox
    THEN <<>>
    ELSE EraseWrites(c, old.effectPosition, old.previousRenderBoundingBox)

\* A commit of ITerm2Image with this state: the cleanup, then the layout
\* effect, which returns early or starts the timer of the cycle.
ITerm2Committed(c, old, new) ==
    LET starts == new.mounted /\ new.imageOutput # NoSize
                  /\ ~ITerm2Skips(new.componentPosition)
        cycle == old.cycle + 1
    IN  /\ comp' = [comp EXCEPT ![c] =
              [new EXCEPT
                 !.cycle = cycle,
                 !.renderTimeouts =
                     ClearedTimeouts(old) \cup
                     (IF starts
                      THEN {[cycle |-> cycle,
                             componentPosition |-> new.componentPosition,
                             imageOutput |-> new.imageOutput,
                             actualSizeInCells |-> new.actualSizeInCells]}
                      ELSE {}),
                 !.superseded =
                     IF old.effectPosition = NoPlace THEN @
                     ELSE @ \cup {t.cycle : t \in old.renderTimeouts},
                 !.effectPosition = IF starts THEN new.componentPosition ELSE NoPlace,
                 !.previousRenderBoundingBox = NoBoundingBox]]
        /\ stdoutWrites' = LayoutCleanupWrites(c, old)

\* A commit of KittyImage, after the writes of the step so far: the
\* cleanup of the [imageId, stdout] effect, then the placement effect.
KittyCommitted(c, old, new, before) ==
    /\ comp' = [comp EXCEPT ![c] = [new EXCEPT !.cycle = old.cycle + 1]]
    /\ stdoutWrites' =
          before
          \o (IF old.imageId # NoImage /\ (old.imageId # new.imageId \/ ~new.mounted)
              THEN <<Wrote(c, "delete", old.imageId, 0)>> ELSE <<>>)
          \o (IF new.mounted /\ new.imageId # NoImage
              THEN PlacementWrites(c, new.kind, new.componentPosition, new.imageId)
              ELSE <<>>)

StreamCommitted(c, new, before) ==
    IF comp[c].kind = "iterm2"
    THEN ITerm2Committed(c, comp[c], new)
    ELSE KittyCommitted(c, comp[c], new, before)

\* A render of the component with the box where Ink laid it out: the
\* mount, a move, or a re-render in place.
StreamRender(c, pos) ==
    /\ CyclesLeft
    /\ StreamCommitted(c, [comp[c] EXCEPT !.mounted = TRUE, !.componentPosition = pos], <<>>)

\* generateImageOutput of ITerm2Image runs to its end: setActualSizeInCells
\* and setImageOutput, committed together.
StreamImageReady(c, source) ==
    /\ comp[c].kind = "iterm2" /\ comp[c].mounted
    /\ CyclesLeft
    /\ StreamCommitted(c,
          [comp[c] EXCEPT
             !.imageOutput = ITerm2Output(comp[c].componentPosition, source),
             !.actualSizeInCells = ITerm2ActualSizeInCells(source)], <<>>)

\* generateKittyId gives an id no image has: the model has two for each
\* component.
NewImageId(c) ==
    IF comp[c].imageId = c THEN c + Cardinality(StreamComponents) ELSE c

\* generateImageOutput of KittyImage from the chunk loop on: all the
\* chunks and setImageId, or the chunks before a throw and setHasError.
StreamTransferred(c, length, wrote) ==
    /\ comp[c].kind # "iterm2" /\ comp[c].mounted
    /\ CyclesLeft
    /\ wrote \in 0..Len(TransferWrites(c, NewImageId(c), length))
    /\ LET chunks == TransferWrites(c, NewImageId(c), length)
       IN  IF wrote = Len(chunks)
           THEN StreamCommitted(c, [comp[c] EXCEPT !.imageId = NewImageId(c)], chunks)
           ELSE StreamCommitted(c, [comp[c] EXCEPT !.hasError = TRUE],
                                SubSeq(chunks, 1, wrote))

\* The timer of a cycle fires: the payload is written and the box is
\* recorded in the closure of that cycle's effect.
StreamTimerFires(c, t) ==
    /\ t \in comp[c].renderTimeouts
    /\ stdoutWrites' = PayloadWrites(c, t)
    /\ comp' = [comp EXCEPT ![c] =
          [@ EXCEPT
             !.renderTimeouts = @ \ {t},
             !.lastPayload = t.cycle,
             !.previousRenderBoundingBox =
                 IF t.cycle = comp[c].cycle
                 THEN [row |-> rows - t.componentPosition.appHeight + t.componentPosition.row,
                       col |-> t.componentPosition.col,
                       width |-> t.actualSizeInCells.width,
                       height |-> t.actualSizeInCells.height]
                 ELSE @]]

StreamUnmount(c) ==
    /\ comp[c].mounted
    /\ CyclesLeft
    /\ StreamCommitted(c, StreamUnmounted(comp[c].kind, comp[c].cycle, comp[c].lastPayload),
                       <<>>)

----------------------------------------------------------------------------
(* AsciiImage: toAscii (components/image/Ascii.tsx) *)

\* "ascii characters ordered by brightness", each character as its code
\* point: "$" (36) first, the space (32) last
ascii_chars ==
    <<36, 64, 66, 37, 56, 38, 87, 77, 35, 42,
      111, 97, 104, 107, 98, 100, 112, 113, 119, 109,
      90, 79, 48, 81, 76, 67, 74, 85, 89, 88,
      122, 99, 118, 117, 110, 120, 114, 106, 102, 116,
      47, 92, 124, 40, 41, 49, 123, 125, 91, 93,
      63, 45, 95, 43, 126, 60, 62, 105, 33, 108,
      73, 59, 58, 44, 34, 94, 96, 39, 46, 32>>

LineFeed == 10

NotAChar == 0 - 1

\* ascii_chars[i] of JavaScript: undefined outside the string
CharAt(i) == IF i \in 0..(Len(ascii_chars) - 1) THEN ascii_chars[i + 1] ELSE NotAChar

\* const a = channels === 4 ? data[pixelIndex + 3] : 255
AlphaOf(p) == IF p.channels = 4 THEN p.a ELSE 255

\* r + g + b + a == 0 ? 0 : (r + g + b + a) / (255 * 4), as a fraction
Intensity(p) ==
    IF p.r + p.g + p.b + AlphaOf(p) = 0 THEN Whole(0)
    ELSE Frac(p.r + p.g + p.b + AlphaOf(p), 255 * 4)

PixelCharIndex_noMinusOne(p) ==
    Len(ascii_chars) - Floor(Times(Intensity(p), Whole(Len(ascii_chars) - 1)))

\* ascii_chars.length - 1 - Math.floor(intensity * (ascii_chars.length - 1))
PixelCharIndex(p) ==
    Len(ascii_chars) - 1 - Floor(Times(Intensity(p), Whole(Len(ascii_chars) - 1)))

\* The bytes toAscii reads for a pixel: every red value, with the other
\* three bytes at their ends, which gives every channel sum from 0 to 1020.
ByteEnds == {0, 255}

Pixels == [r : 0..255, g : ByteEnds, b : ByteEnds, a : ByteEnds, channels : {3, 4}]

NoPixel == [r |-> 0, g |-> 0, b |-> 0, a |-> 0, channels |-> 3]

NotComputed == 0 - 1

AsciiIdle ==
    /\ asciiArgs = NoPixel
    /\ asciiIndex = NotComputed
    /\ asciiOutput = <<>>

AsciiInit ==
    /\ asciiArgs \in Pixels
    /\ asciiIndex = NotComputed
    /\ asciiOutput = <<>>

\* toAscii(data, 1, 1, channels, false): one pixel, one row
CallToAscii ==
    /\ asciiOutput = <<>>
    /\ asciiIndex' = PixelCharIndex(asciiArgs)
    /\ asciiOutput' = <<CharAt(PixelCharIndex(asciiArgs)), LineFeed>>
    /\ UNCHANGED asciiArgs

----------------------------------------------------------------------------
(* Specifications *)

SelIdle == SelInit

BestIdle ==
    /\ termProgram = Undefined
    /\ konsoleVersion = Undefined
    /\ bestCaps = NoCapabilities
    /\ best = "none"

KittyIdle == AllocInit /\ ClientInit /\ KittyInit

SizeIdle ==
    /\ sizeArgs = NoRequest
    /\ sizeResult = NoSize
    /\ sizeAligned = NoSize
    /\ sizeUnaligned = NoUnaligned

LastIdle == ProbeLogInit /\ LoadInit /\ StreamIdle

MoreIdle == AsciiIdle /\ ChunkIdle /\ KittyLifeInit /\ ExchangeInit /\ LastIdle

LaterIdle ==
    /\ SizeIdle /\ ProcessInit /\ ITerm2Init /\ lifeStep = "none" /\ ProbeIdle
    /\ MoreIdle

\* The Image selector under a TerminalInfoProvider.
Init == SelInit /\ BestIdle /\ KittyIdle /\ LaterIdle

notSel == <<bestVars, allocVars, held, kittyVars, lastCall, rt, laterVars>>

Next ==
    \/ \E caps \in TerminalCapabilities : ProbeComplete(caps) /\ UNCHANGED notSel
    \/ \E prop \in ImageProtocolName \cup {Undefined} : MountImage(prop) /\ UNCHANGED notSel
    \/ SupportEffect /\ UNCHANGED notSel
    \/ ResetEffect /\ UNCHANGED notSel
    \/ Render /\ UNCHANGED notSel
    \/ \E prop \in ImageProtocolName \cup {Undefined} : ChangeProtocolProp(prop) /\ UNCHANGED notSel
    \/ UnmountImage /\ UNCHANGED notSel

Spec == Init /\ [][Next]_vars

\* getBestProtocol applied to every capability snapshot and environment.
InitBest == SelIdle /\ BestInit /\ KittyIdle /\ LaterIdle

NextBest ==
    \E caps \in TerminalCapabilities :
        CallGetBestProtocol(caps)
        /\ UNCHANGED <<selVars, allocVars, held, kittyVars, lastCall, rt, laterVars>>

SpecBest == InitBest /\ [][NextBest]_vars

\* The id generator driven by a direct caller.
InitAlloc == SelIdle /\ BestIdle /\ KittyIdle /\ LaterIdle

NextAlloc ==
    \/ ClientGenerateId /\ RecordGenerateId
          /\ UNCHANGED <<selVars, bestVars, kittyVars, laterVars>>
    \/ \E id \in FreeArguments :
          ClientFreeId(id) /\ RecordFreeId(id)
          /\ UNCHANGED <<selVars, bestVars, kittyVars, laterVars>>

SpecAlloc == InitAlloc /\ [][NextAlloc]_vars

\* A direct caller that frees whatever number it likes.
NextAllocAny ==
    \/ ClientGenerateId /\ RecordGenerateId
          /\ UNCHANGED <<selVars, bestVars, kittyVars, laterVars>>
    \/ \E id \in (MIN_ID - 1)..MAX_ID :
          ClientFreeAnyId(id) /\ RecordFreeId(id)
          /\ UNCHANGED <<selVars, bestVars, kittyVars, laterVars>>

SpecAllocAny == InitAlloc /\ [][NextAllocAny]_vars

\* Several KittyImage instances and a direct caller sharing the generator.
InitKitty == SelIdle /\ BestIdle /\ KittyIdle /\ LaterIdle

notKitty == <<selVars, bestVars, laterVars>>

NextKitty ==
    \/ \E k \in KittyComponents, ready \in BOOLEAN :
          KittyMount(k, ready) /\ UNCHANGED <<notKitty, held, lastCall, rt>>
    \/ \E k \in KittyComponents, ready \in BOOLEAN :
          KittyParamsChanged(k, ready) /\ UNCHANGED <<notKitty, held, lastCall, rt>>
    \/ \E k \in KittyComponents, ok \in BOOLEAN :
          KittyFetched(k, ok) /\ UNCHANGED <<notKitty, held, lastCall, rt>>
    \/ \E k \in KittyComponents :
          KittyGenerateId(k) /\ UNCHANGED <<notKitty, held, lastCall, rt>>
    \/ \E k \in KittyComponents, id \in MIN_ID..(MAX_ID - 1), ok \in BOOLEAN :
          KittyTransmitted(k, id, ok) /\ UNCHANGED <<notKitty, held, lastCall, rt>>
    \/ \E k \in KittyComponents :
          KittyUnmount(k) /\ UNCHANGED <<notKitty, held, lastCall, rt>>
    \/ ClientGenerateId /\ UNCHANGED <<notKitty, kittyVars, lastCall, rt>>
    \/ \E id \in FreeArguments :
          ClientFreeId(id) /\ UNCHANGED <<notKitty, kittyVars, lastCall, rt>>

SpecKitty == InitKitty /\ [][NextKitty]_vars

\* calculateImageSize applied to every size request.
InitSize ==
    /\ SelIdle /\ BestIdle /\ KittyIdle
    /\ SizeInit /\ ProcessInit /\ ITerm2Init /\ lifeStep = "none" /\ ProbeIdle
    /\ MoreIdle

NextSize ==
    CallCalculateImageSize
    /\ UNCHANGED <<selVars, bestVars, allocVars, held, kittyVars, lastCall, rt,
                   procState, overlayVars, lifeStep, probeVars, moreVars>>

SpecSize == InitSize /\ [][NextSize]_vars

\* One ITerm2Image through its render cycles, to unmount or to the end of
\* the process.
InitOverlay == SelIdle /\ BestIdle /\ KittyIdle /\ LaterIdle

notOverlay == <<selVars, bestVars, allocVars, held, kittyVars, lastCall, rt, sizeVars,
                lifeStep, probeVars, moreVars>>

Signals == {"exit", "SIGINT", "SIGTERM"}

NextOverlay ==
    \/ \E pos \in Positions : ITerm2Mount(pos) /\ UNCHANGED <<notOverlay, procState>>
    \/ \E pos \in Positions : ITerm2PositionChanged(pos) /\ UNCHANGED <<notOverlay, procState>>
    \/ ITerm2Rerender /\ UNCHANGED <<notOverlay, procState>>
    \/ \E source \in SourceImages : ITerm2ImageReady(source) /\ UNCHANGED <<notOverlay, procState>>
    \/ ITerm2RenderTimeout /\ UNCHANGED <<notOverlay, procState>>
    \/ ITerm2Unmount /\ UNCHANGED <<notOverlay, procState>>
    \/ \E sig \in Signals : ITerm2ProcessSignal(sig) /\ UNCHANGED notOverlay

SpecOverlay == InitOverlay /\ [][NextOverlay]_vars

\* KittyImage instances through their lives, to unmount or to the end of
\* the process.
InitKittyLife == SelIdle /\ BestIdle /\ KittyIdle /\ LaterIdle

notKittyLife == <<selVars, bestVars, held, lastCall, rt, sizeVars, overlayVars, probeVars,
                  moreVars>>

NextKittyLife ==
    \/ \E k \in KittyComponents, ready \in BOOLEAN :
          /\ procState = "running" /\ KittyMount(k, ready)
          /\ lifeStep' = "mount" /\ UNCHANGED <<notKittyLife, procState>>
    \/ \E k \in KittyComponents, ready \in BOOLEAN :
          /\ procState = "running" /\ KittyParamsChanged(k, ready)
          /\ lifeStep' = "paramsChanged" /\ UNCHANGED <<notKittyLife, procState>>
    \/ \E k \in KittyComponents, ok \in BOOLEAN :
          /\ procState = "running" /\ KittyFetched(k, ok)
          /\ lifeStep' = "fetched" /\ UNCHANGED <<notKittyLife, procState>>
    \/ \E k \in KittyComponents :
          /\ procState = "running" /\ KittyGenerateId(k)
          /\ lifeStep' = "generateId" /\ UNCHANGED <<notKittyLife, procState>>
    \/ \E k \in KittyComponents, id \in MIN_ID..(MAX_ID - 1), ok \in BOOLEAN :
          /\ procState = "running" /\ KittyTransmitted(k, id, ok)
          /\ lifeStep' = "transmitted" /\ UNCHANGED <<notKittyLife, procState>>
    \/ \E k \in KittyComponents :
          /\ procState = "running" /\ KittyRerender(k)
          /\ lifeStep' = "rerender" /\ UNCHANGED <<notKittyLife, procState>>
    \/ \E k \in KittyComponents :
          /\ procState = "running" /\ KittyUnmount(k)
          /\ lifeStep' = "unmount" /\ UNCHANGED <<notKittyLife, procState>>
    \/ \E sig \in Signals, flushed \in BOOLEAN :
          /\ KittyProcessSignal(sig, flushed)
          /\ lifeStep' = "signal" /\ UNCHANGED notKittyLife

SpecKittyLife == InitKittyLife /\ [][NextKittyLife]_vars

notKittyWrites == <<selVars, bestVars, held, lastCall, rt, sizeVars, overlayVars, probeVars,
                  asciiVars, chunkVars, timerVars, lastVars>>

\* The instances of S through their lives, with what they write.
NextKittyWritesOf(S) ==
    \/ \E k \in S, ready \in BOOLEAN :
          /\ procState = "running" /\ KittyLifeMount(k, ready)
          /\ lifeStep' = "mount" /\ UNCHANGED <<notKittyWrites, procState>>
    \/ \E k \in S, ready \in BOOLEAN :
          /\ procState = "running" /\ KittyLifeParamsChanged(k, ready)
          /\ lifeStep' = "paramsChanged" /\ UNCHANGED <<notKittyWrites, procState>>
    \/ \E k \in S, ok \in BOOLEAN :
          /\ procState = "running" /\ KittyLifeFetched(k, ok)
          /\ lifeStep' = "fetched" /\ UNCHANGED <<notKittyWrites, procState>>
    \/ \E k \in S :
          /\ procState = "running" /\ KittyLifeGenerateId(k)
          /\ lifeStep' = "generateId" /\ UNCHANGED <<notKittyWrites, procState>>
    \/ \E k \in S, id \in MIN_ID..(MAX_ID - 1),
          length \in DataLengths, wrote \in 0..MaxWrites :
          /\ procState = "running" /\ KittyLifeTransmitted(k, id, length, wrote)
          /\ lifeStep' = "transmitted" /\ UNCHANGED <<notKittyWrites, procState>>
    \/ \E k \in S :
          /\ procState = "running" /\ KittyLifeRerender(k)
          /\ lifeStep' = "rerender" /\ UNCHANGED <<notKittyWrites, procState>>
    \/ \E k \in S :
          /\ procState = "running" /\ KittyLifeUnmount(k)
          /\ lifeStep' = "unmount" /\ UNCHANGED <<notKittyWrites, procState>>
    \/ \E sig \in Signals, flushed \in BOOLEAN :
          /\ KittyLifeProcessSignal(sig, flushed)
          /\ lifeStep' = "signal" /\ UNCHANGED notKittyWrites

NextKittyWrites == NextKittyWritesOf(KittyComponents)

SpecKittyWrites == InitKittyLife /\ [][NextKittyWrites]_vars

\* One KittyImage instance through its life.
TheInstance == CHOOSE k \in KittyComponents : TRUE

NextKittyOne == NextKittyWritesOf({TheInstance})

SpecKittyOne == InitKittyLife /\ [][NextKittyOne]_vars

\* A TerminalInfoProvider, the terminal that answers it or not, and a
\* useInput hook beside it.
InitProbe ==
    /\ SelIdle /\ KittyIdle /\ SizeIdle /\ ProcessInit /\ ITerm2Init /\ lifeStep = "none"
    /\ bestCaps = NoCapabilities /\ best = "none"
    /\ ProbeInit
    /\ MoreIdle

notProbe == <<bestVars, allocVars, held, kittyVars, lastCall, rt, sizeVars, procState,
              overlayVars, lifeStep, moreVars>>

NextProbe ==
    \/ ProviderMount /\ UNCHANGED notProbe
    \/ ProviderUnmount /\ UNCHANGED notProbe
    \/ \E chunk \in ReplyChunks : QueryOnData(chunk) /\ UNCHANGED notProbe
    \/ QueryResponseTimeout /\ UNCHANGED notProbe
    \/ QueryRepliesTimeout /\ UNCHANGED notProbe
    \/ QueryOnClose /\ UNCHANGED notProbe
    \/ \E value \in BOOLEAN : ConsumerSetRawMode(value) /\ UNCHANGED notProbe

SpecProbe == InitProbe /\ [][NextProbe]_vars

\* The timers of a query in flight fire.
SpecProbeLive ==
    /\ SpecProbe
    /\ WF_vars(QueryResponseTimeout /\ UNCHANGED notProbe)
    /\ WF_vars(QueryRepliesTimeout /\ UNCHANGED notProbe)

\* The probe with the record of its queries.
notProbeOrder == <<bestVars, allocVars, held, kittyVars, lastCall, rt, sizeVars, procState,
                   overlayVars, lifeStep, asciiVars, chunkVars, kittyLifeVars, timerVars,
                   loadVars, streamVars>>

NextProbeOrder ==
    \/ LoggedProviderMount /\ UNCHANGED notProbeOrder
    \/ ProviderUnmount /\ UNCHANGED <<notProbeOrder, probeLogVars>>
    \/ \E chunk \in ReplyChunks : QueryOnData(chunk) /\ UNCHANGED <<notProbeOrder, probeLogVars>>
    \/ LoggedResponseTimeout /\ UNCHANGED notProbeOrder
    \/ LoggedRepliesTimeout /\ UNCHANGED notProbeOrder
    \/ LoggedOnClose /\ UNCHANGED notProbeOrder
    \/ \E value \in BOOLEAN :
          ConsumerSetRawMode(value) /\ UNCHANGED <<notProbeOrder, probeLogVars>>

SpecProbeOrder == InitProbe /\ [][NextProbeOrder]_vars

\* One image component whose src changes while its loads are in flight.
InitLoads ==
    /\ SelIdle /\ BestIdle /\ KittyIdle /\ LaterIdle

notLoads == <<selVars, bestVars, allocVars, held, kittyVars, lastCall, rt, sizeVars, procState,
              overlayVars, lifeStep, probeVars, asciiVars, chunkVars, kittyLifeVars,
              timerVars, probeLogVars, streamVars>>

NextLoads ==
    \/ SourceChanged /\ UNCHANGED notLoads
    \/ \E r \in 1..MaxRequests, ok \in BOOLEAN : LoadCompletes(r, ok) /\ UNCHANGED notLoads

SpecLoads == InitLoads /\ [][NextLoads]_vars

\* Image components of one process writing to one stdout.
InitStream ==
    /\ SelIdle /\ BestIdle /\ KittyIdle
    /\ SizeIdle /\ ProcessInit /\ ITerm2Init /\ lifeStep = "none" /\ ProbeIdle
    /\ AsciiIdle /\ ChunkIdle /\ KittyLifeInit /\ ExchangeInit
    /\ ProbeLogInit /\ LoadInit /\ StreamInit

notStream == <<selVars, bestVars, allocVars, held, kittyVars, lastCall, rt, sizeVars, procState,
               overlayVars, lifeStep, probeVars, asciiVars, chunkVars, kittyLifeVars,
               timerVars, probeLogVars, loadVars>>

NextStream ==
    \/ \E c \in StreamComponents, pos \in StreamPositions :
          StreamRender(c, pos) /\ UNCHANGED notStream
    \/ \E c \in StreamComponents, source \in SourceImages :
          StreamImageReady(c, source) /\ UNCHANGED notStream
    \/ \E c \in StreamComponents, length \in DataLengths, wrote \in 0..MaxWrites :
          StreamTransferred(c, length, wrote) /\ UNCHANGED notStream
    \/ \E c \in StreamComponents :
          \E t \in comp[c].renderTimeouts : StreamTimerFires(c, t) /\ UNCHANGED notStream
    \/ \E c \in StreamComponents : StreamUnmount(c) /\ UNCHANGED notStream

SpecStream == InitStream /\ [][NextStream]_vars

\* toAscii on every pixel of Pixels.
InitAscii ==
    /\ SelIdle /\ BestIdle /\ KittyIdle
    /\ SizeIdle /\ ProcessInit /\ ITerm2Init /\ lifeStep = "none" /\ ProbeIdle
    /\ AsciiInit /\ ChunkIdle /\ KittyLifeInit /\ ExchangeInit /\ LastIdle

NextAscii ==
    /\ CallToAscii
    /\ UNCHANGED <<selVars, bestVars, allocVars, held, kittyVars, lastCall, rt, sizeVars,
                   procState, overlayVars, lifeStep, probeVars, chunkVars,
                   kittyLifeVars, timerVars, lastVars>>

SpecAscii == InitAscii /\ [][NextAscii]_vars

\* The chunk loop on data of every length of Base64Lengths.
InitChunks ==
    /\ SelIdle /\ BestIdle /\ KittyIdle
    /\ SizeIdle /\ ProcessInit /\ ITerm2Init /\ lifeStep = "none" /\ ProbeIdle
    /\ AsciiIdle /\ ChunkInit /\ KittyLifeInit /\ ExchangeInit /\ LastIdle

NextChunks ==
    /\ WriteChunks
    /\ UNCHANGED <<selVars, bestVars, allocVars, held, kittyVars, lastCall, rt, sizeVars,
                   procState, overlayVars, lifeStep, probeVars, asciiVars,
                   kittyLifeVars, timerVars, lastVars>>

SpecChunks == InitChunks /\ [][NextChunks]_vars

\* One call of queryEscapeSequence, in either variant, on any host.
InitExchange ==
    /\ SelIdle /\ KittyIdle /\ SizeIdle /\ ProcessInit /\ ITerm2Init /\ lifeStep = "none"
    /\ bestCaps = NoCapabilities /\ best = "none"
    /\ ProbeInit
    /\ AsciiIdle /\ ChunkIdle /\ KittyLifeInit /\ ExchangeInit /\ LastIdle

notExchange == <<selVars, bestVars, allocVars, held, kittyVars, lastCall, rt, sizeVars,
                 procState, overlayVars, lifeStep, asciiVars, chunkVars, kittyLifeVars,
                 lastVars>>

NextExchange ==
    \/ StartExchange /\ UNCHANGED notExchange
    \/ \E chunk \in TimedChunks : onData(chunk) /\ UNCHANGED notExchange
    \/ onClose /\ UNCHANGED notExchange
    \/ ResponseTimerFires /\ UNCHANGED notExchange
    \/ RepliesTimerFires /\ UNCHANGED notExchange
    \/ TickClock /\ UNCHANGED notExchange

SpecExchange == InitExchange /\ [][NextExchange]_vars

----------------------------------------------------------------------------
(* Properties of the protocol selector *)

\* The fallback table as the specification states it.
ExpectedSuccessor(p) ==
    CASE p \in {"kitty", "iterm2", "sixel"} -> "halfBlock"
      [] p = "halfBlock"                     -> "braille"
      [] p = "braille"                       -> "ascii"
      [] p = "ascii"                         -> "ascii"

RECURSIVE ChainFrom(_, _)
ChainFrom(p, n) == IF n = 0 THEN p ELSE ExpectedSuccessor(ChainFrom(p, n - 1))

\* The capability gate of each protocol as the specification states it.
GateSatisfied(p, caps) ==
    CASE p = "ascii"     -> TRUE
      [] p = "halfBlock" -> caps.supportsUnicode /\ caps.supportsColor
      [] p = "braille"   -> caps.supportsUnicode
      [] p = "sixel"     -> caps.supportsSixelGraphics
      [] p = "kitty"     -> caps.supportsKittyGraphics
      [] p = "iterm2"    -> caps.supportsITerm2Graphics

RECURSIVE FirstSupported(_, _)
FirstSupported(p, caps) ==
    IF GateSatisfied(p, caps) THEN p ELSE FirstSupported(ExpectedSuccessor(p), caps)

NoPendingUpdate == pc \in {"idle", "supportEffect"}

C2_SettlesOnSupported ==
    (mounted /\ capsReady /\ pc = "idle") =>
        GateSatisfied(protocol, terminalCapabilities)

\* C3: a change of the requested protocol to p sets the current protocol
\* to p whatever state fallback had reached, and fallback then runs from
\* p: at rest the selector stands on the first supported protocol of the
\* chain that starts at p.
C3_ChangeResets ==
    /\ [][pc = "render" /\ resetInBatch /\ resetBy = "change" =>
            protocol' = initialProtocol]_vars
    /\ [](mounted /\ pc = "idle" /\ capsReady /\ resetBy = "change" =>
            protocol = FirstSupported(initialProtocol, terminalCapabilities))

C3_Witness ==
    /\ mounted /\ pc = "idle" /\ capsReady /\ resetBy = "change"
    /\ initialProtocol = "sixel" /\ protocol = "braille" /\ falseCount = 2

\* C4: a true signal queues no update and leaves the current protocol as
\* it is; the current protocol of a mounted Image changes only in a render
\* that applies a false signal or the reset of a changed protocol prop.
C4_TrueIsNoOp ==
    /\ [][pc = "supportEffect" /\ lastSignal' = "true" =>
            updateQueue' = updateQueue /\ protocol' = protocol]_vars
    /\ [][mounted /\ mounted' /\ protocol' # protocol =>
            \/ lastSignal = "false" /\ ~resetInBatch
            \/ resetInBatch /\ resetBy = "change"]_vars

C4_Witness ==
    /\ mounted /\ pc = "idle" /\ lastSignal = "true"
    /\ falseCount = 1 /\ protocol = "halfBlock"

\* C17: while the capabilities are not ready the support effect of the
\* protocol component sends no signal, true or false, and queues no
\* fallback; an Image mounted before the capabilities are ready has
\* received no signal and rests on the requested protocol.
C17_NoSignalBeforeCapabilities ==
    /\ [][(pc = "supportEffect" /\ ~capsReady) =>
            /\ updateQueue' = updateQueue
            /\ lastSignal' = lastSignal
            /\ falseCount' = falseCount]_vars
    /\ []((mounted /\ ~capsReady) =>
            /\ lastSignal = "none" /\ falseCount = 0
            /\ pc = "idle" => protocol = initialProtocol)

C17_Witness ==
    /\ mounted /\ ~capsReady /\ pc = "idle"
    /\ protocol = "kitty" /\ lastSignal = "none"

----------------------------------------------------------------------------
(* Properties of getBestProtocol *)

Priority == <<"kitty", "iterm2", "sixel", "halfBlock", "braille", "ascii">>

HighestPrioritySupported(caps) ==
    Priority[CHOOSE i \in 1..Len(Priority) :
                /\ GateSatisfied(Priority[i], caps)
                /\ \A j \in 1..(i - 1) : ~GateSatisfied(Priority[j], caps)]

ExpectedBest(caps, prog, konsole) ==
    IF prog \in {"iTerm.app", "WarpTerminal", "WezTerm"} /\ caps.supportsITerm2Graphics
    THEN "iterm2"
    ELSE IF konsole = "220400" /\ caps.supportsKittyGraphics
    THEN "kitty"
    ELSE HighestPrioritySupported(caps)

\* C5: the protocol getBestProtocol returns has its capability gate
\* satisfied, and it is iterm2 on iTerm.app, WarpTerminal and WezTerm when
\* iTerm2 is supported, kitty on Konsole when Kitty is supported, and
\* otherwise the first supported protocol in the order Kitty > iTerm2 >
\* Sixel > HalfBlock > Braille > Ascii.
C5_BestProtocol ==
    best # "none" =>
        /\ GateSatisfied(best, bestCaps)
        /\ best = ExpectedBest(bestCaps, termProgram, konsoleVersion)

C5_Witness ==
    /\ best = "iterm2" /\ termProgram = "WezTerm"
    /\ bestCaps.supportsKittyGraphics /\ bestCaps.supportsITerm2Graphics

UnicodeOnly ==
    [supportsUnicode |-> TRUE, supportsColor |-> FALSE,
     supportsSixelGraphics |-> FALSE, supportsKittyGraphics |-> FALSE,
     supportsITerm2Graphics |-> FALSE]

UnicodeAndColor == [UnicodeOnly EXCEPT !.supportsColor = TRUE]

\* C6: with no protocol prop, an Image at rest stands on braille when the
\* capabilities are unicode only, and on halfBlock when color is added.
C6_DefaultIsCapabilityDriven ==
    (mounted /\ capsReady /\ pc = "idle" /\ protocolProp = Undefined) =>
        /\ terminalCapabilities = UnicodeOnly => protocol = "braille"
        /\ terminalCapabilities = UnicodeAndColor => protocol = "halfBlock"

----------------------------------------------------------------------------
(* Properties of the Kitty ids *)

LiveIds == {kImageId[k] : k \in KittyComponents} \ {NoImage}

InFlightIds == UNION {kEncoding[k] : k \in KittyComponents}

C9_Overflow ==
    /\ [][(lastCall' # lastCall /\ lastCall'.op = "generateId") =>
            /\ ~lastCall'.ok <=> (freedIds = <<>> /\ currentId = MAX_ID)
            /\ lastCall'.ok => (lastCall'.id >= MIN_ID /\ lastCall'.id < MAX_ID)
            /\ ~lastCall'.ok => UNCHANGED <<currentId, freedIds>>]_vars
    /\ [](currentId >= MIN_ID /\ currentId <= MAX_ID)
    /\ [](\A id \in held \cup SeqRange(freedIds) : id >= MIN_ID /\ id < MAX_ID)

C9_Witness ==
    /\ lastCall = [op |-> "generateId", id |-> 0, ok |-> FALSE]
    /\ currentId = MAX_ID /\ freedIds = <<>>

\* C10: the id of a destroyed Kitty overlay (one a delete command has
\* named) is back in the free pool, unless it has been handed out again.
C10_DestroyedIdsAreFreed ==
    \A id \in deletedIds :
        id \in SeqRange(freedIds) \cup LiveIds \cup InFlightIds \cup held

----------------------------------------------------------------------------
(* Properties of calculateImageSize *)

SizeCalled == sizeAligned # NoSize

WithinMax(size, a) ==
    /\ size.width > 0 /\ size.height > 0
    /\ ~Less(a.maxWidth, Whole(size.width))
    /\ ~Less(a.maxHeight, Whole(size.height))

\* C18: for positive maxWidth, maxHeight and aspect ratio, with or without
\* explicit sizes and alignment, the returned width is at most maxWidth, the
\* returned height at most maxHeight, and both are greater than 0. Stated
\* of the function in utils/image.ts and of the one with an alignment.
C18_WithinMaxAndPositive ==
    SizeCalled => WithinMax(sizeResult, sizeArgs) /\ WithinMax(sizeAligned, sizeArgs)

BothSpecified == Specified(sizeArgs.specifiedWidth) /\ Specified(sizeArgs.specifiedHeight)

ClampedWidth == Min(sizeArgs.specifiedWidth, sizeArgs.maxWidth)

ClampedHeight == Min(sizeArgs.specifiedHeight, sizeArgs.maxHeight)

IsExactly(n, x) == SameNumber(Whole(n), x)

IsWhole(x) == x[1] % x[2] = 0

C20_AlignedToGrid ==
    SizeCalled =>
        LET alignW == AlignOr1(sizeArgs.alignment.width)
            alignH == AlignOr1(sizeArgs.alignment.height)
        IN  /\ sizeAligned.width % alignW = 0 /\ sizeAligned.width >= alignW
            /\ sizeAligned.height % alignH = 0 /\ sizeAligned.height >= alignH
            /\ sizeArgs.alignment = [width |-> 8, height |-> 4] =>
                  (sizeAligned.width % 8 = 0 /\ sizeAligned.height % 4 = 0
                   /\ sizeAligned.width >= 8 /\ sizeAligned.height >= 4)

C20_Witness ==
    /\ SizeCalled
    /\ sizeArgs.alignment = [width |-> 8, height |-> 4]
    /\ sizeArgs.maxWidth = Whole(MaxLen) /\ sizeArgs.maxHeight = Whole(MaxLen)
    /\ sizeArgs.originalAspectRatio = Whole(1)
    /\ sizeArgs.specifiedWidth = Unspecified /\ sizeArgs.specifiedHeight = Unspecified
    /\ sizeAligned = [width |-> 8 * (MaxLen \div 8), height |-> 4 * (MaxLen \div 4)]

----------------------------------------------------------------------------
(* Properties of the ITerm2 overlay *)

\* The box of the render cycle under way: the recorded one and the cells
\* its payload covers; none before the payload is written.
CurrentBoxCells ==
    IF previousRenderBoundingBox = NoBox
    THEN {}
    ELSE BoxCells(previousRenderBoundingBox)
         \cup PaintedCells(componentPosition.col, imageOutput)

\* C11: in a running process the cycle that follows one that wrote a
\* payload (a re-render or the unmount) leaves every cell of the recorded
\* bounding box blank before anything new is written, and no cell outside
\* the box of the cycle under way shows image content: nothing of a
\* larger previous output is left around a smaller new one.
C11_EraseBeforeWrite ==
    /\ [][(procState' = "running" /\ previousRenderBoundingBox # NoBox
            /\ previousRenderBoundingBox' = NoBox) =>
               BoxCells(previousRenderBoundingBox) \cap screen' = {}]_vars
    /\ [](procState = "running" => screen \subseteq CurrentBoxCells)

----------------------------------------------------------------------------
(* Properties of the overlays at re-render, unmount and termination *)

\* C12: the step in which the process receives exit, SIGINT or SIGTERM,
\* and every step after it, writes no cleanup: no cell that shows image
\* content is blanked and no Kitty delete command is written, and the
\* process has ended.
C12_NoCleanupAfterTermination ==
    /\ [][procState' = "exited" => (screen' = screen /\ deletedIds' = deletedIds)]_vars
    /\ [][procState = "exited" => procState' = "exited"]_vars

----------------------------------------------------------------------------
(* Properties of the probe of the terminal *)

DefaultDimensions ==
    [viewportWidth |-> Whole(6 * columns), viewportHeight |-> Whole(12 * rows),
     cellWidth |-> Whole(6), cellHeight |-> Whole(12)]

\* C14: when the terminal sends no reply to any query, the snapshot a
\* mounted provider publishes has supportsKittyGraphics and
\* supportsSixelGraphics false and cells of 6x12 px with a viewport of
\* 6*columns by 12*rows, and the probe ends: a provider that stays mounted
\* and gets no reply comes to publish its snapshot.
C14_SilentTerminalGivesDefaults ==
    /\ []((capsReady /\ ~replied) =>
            /\ ~terminalCapabilities.supportsKittyGraphics
            /\ ~terminalCapabilities.supportsSixelGraphics
            /\ terminalDimensions = DefaultDimensions)
    /\ (provMounted /\ ~capsReady /\ ~replied) ~> (capsReady \/ replied \/ ~provMounted)

C14_Witness ==
    /\ provMounted /\ capsReady /\ ~replied /\ probeStep = "idle"
    /\ terminalDimensions = DefaultDimensions

\* C15: once no query is in flight, standard input is in raw mode exactly
\* when another consumer has raw mode enabled: the probe has put back the
\* mode it overrode, and a consumer that enabled raw mode before or during
\* the queries still has it.
C15_InputModeRestored ==
    (probeStep = "idle" /\ hostEnv.isTTY) => (stdinIsRaw <=> consumerRaw)

\* C16: queryTerminalInfo runs at most once in a process, and a published
\* snapshot stays published and unchanged.
C16_ComputedOncePerProcess ==
    /\ [](probeRuns <= 1)
    /\ [][capsReady =>
            /\ capsReady'
            /\ terminalCapabilities' = terminalCapabilities
            /\ terminalDimensions' = terminalDimensions]_vars

----------------------------------------------------------------------------
(* Properties of calculateImageSize with at most one explicit dimension *)

\* Some width and height of exactly the aspect ratio round (Math.round,
\* each within half a pixel) to size.width and size.height.
RatioWithinRounding(size, ratio) ==
    /\ (2 * size.height - 1) * ratio[1] <= (2 * size.width + 1) * ratio[2]
    /\ (2 * size.width - 1) * ratio[2] <= (2 * size.height + 1) * ratio[1]

RatioExactly(size, ratio) == SameNumber(size.width, Times(size.height, ratio))

NeitherSpecified == ~Specified(sizeArgs.specifiedWidth) /\ ~Specified(sizeArgs.specifiedHeight)

----------------------------------------------------------------------------
(* Properties of toAscii *)

AsciiCalled == asciiOutput # <<>>

Densest == ascii_chars[1]

Sparsest == ascii_chars[Len(ascii_chars)]

OpaqueBlack == asciiArgs.r = 0 /\ asciiArgs.g = 0 /\ asciiArgs.b = 0 /\ AlphaOf(asciiArgs) = 255

OpaqueWhite ==
    asciiArgs.r = 255 /\ asciiArgs.g = 255 /\ asciiArgs.b = 255 /\ AlphaOf(asciiArgs) = 255

TransparentBlack ==
    asciiArgs.r = 0 /\ asciiArgs.g = 0 /\ asciiArgs.b = 0 /\ AlphaOf(asciiArgs) = 0

\* C22: the character for an opaque black pixel (0,0,0,255) is the densest
\* of the 70 characters of the ramp, "$" (36), and the character for an opaque
\* white pixel (255,255,255,255) is the sparsest, the space.
C22_BlackDensestWhiteSparsest ==
    AsciiCalled =>
        /\ Len(ascii_chars) = 70
        /\ OpaqueBlack => asciiOutput[1] = Densest
        /\ OpaqueWhite => asciiOutput[1] = Sparsest

\* C23: a transparent black pixel (0,0,0,0) has intensity 0 and gets the
\* sparsest character of the ramp, the space; for every pixel the index
\* computed lies in 0..69 and the character is one of the ramp.
C23_TransparentSparsestIndexInRamp ==
    AsciiCalled =>
        /\ asciiIndex \in 0..(Len(ascii_chars) - 1)
        /\ asciiOutput[1] = ascii_chars[asciiIndex + 1]
        /\ TransparentBlack =>
             /\ Intensity(asciiArgs) = Whole(0)
             /\ asciiIndex = Len(ascii_chars) - 1
             /\ asciiOutput[1] = Sparsest /\ Sparsest = 32

C23_Witness ==
    /\ AsciiCalled /\ TransparentBlack /\ asciiArgs.channels = 4
    /\ asciiOutput = <<32, LineFeed>>

----------------------------------------------------------------------------
(* Properties of the Kitty chunk loop *)

ChunksWritten == chunkResult # <<>>

\* C28: for base64 data of every length, each chunk holds at most 4096
\* bytes; the payloads, in the order written, are the data from its first
\* byte to its last with nothing left out and nothing twice; the last
\* chunk has m=0 and every one before it m=1; the first chunk, and no
\* other, has the image id and the format keys.
C28_ChunksCoverTheData ==
    ChunksWritten =>
        LET n == Len(chunkResult) IN
        /\ \A i \in 1..n :
             /\ chunkResult[i].cmd = "transmit"
             /\ chunkResult[i].from <= chunkResult[i].to
             /\ chunkResult[i].to - chunkResult[i].from <= 4096
             /\ chunkResult[i].m = (IF i = n THEN 0 ELSE 1)
             /\ (i = 1) <=> (chunkResult[i].keys = "f,t,i,m,q")
             /\ chunkResult[i].id = (IF i = 1 THEN chunkArgs.imageId ELSE 0)
        /\ chunkResult[1].from = 0
        /\ chunkResult[n].to = chunkArgs.length
        /\ \A i \in 1..(n - 1) : chunkResult[i + 1].from = chunkResult[i].to

\* Three full chunks: 4096 bytes each, the last with m=0.
C28_Witness ==
    /\ ChunksWritten /\ chunkArgs.length = 3 * 4096
    /\ Len(chunkResult) = 3
    /\ chunkResult[3].from = 2 * 4096 /\ chunkResult[3].to = 3 * 4096
    /\ chunkResult[3].m = 0
----------------------------------------------------------------------------
(* KittyImage: failed loads, re-renders and the order of the writes *)

\* A place or delete command
NamesAnImage(c) == c.cmd \in {"place", "delete"}

\* C24: a mounted KittyImage whose most recent load failed (hasError) shows
\* the placeholder, that is, has no imageId to render the image branch of
\* its JSX with, and the step that left it so wrote no placement of its
\* image.
C24_FailedLoadShowsPlaceholder ==
    \A k \in KittyComponents :
        kMounted[k] /\ kHasError[k] =>
            /\ kImageId[k] = NoImage
            /\ \A i \in DOMAIN written :
                  written[i].cmd = "place" => written[i].id # kImageId[k]

\* C25: a generateId that throws in a KittyImage leaves the component with
\* hasError and the placeholder (no imageId), writes nothing, consumes no
\* id, and leaves the other components and the process as they were.
C25_OverflowEndsThatRenderOnly ==
    [][\A k \in KittyComponents :
          (lifeStep' = "generateId" /\ kMeta'[k] # kMeta[k]
              /\ generateId(currentId, freedIds).threw /\ kMounted[k]) =>
             /\ kHasError'[k] /\ kImageId'[k] = NoImage
             /\ written' = <<>>
             /\ allocVars' = allocVars
             /\ procState' = procState
             /\ \A j \in KittyComponents \ {k} :
                   /\ kImageId'[j] = kImageId[j] /\ kHasError'[j] = kHasError[j]
                   /\ kEncoding'[j] = kEncoding[j] /\ kMounted'[j] = kMounted[j]]_vars

BeginsTransfer(i, id) ==
    written[i].cmd = "transmit" /\ written[i].keys = "f,t,i,m,q" /\ written[i].id = id

\* The final chunk of the transfer that begins at h is written before i.
EndsBefore(h, i) ==
    \E j \in (h + 1)..(i - 1) : written[j].cmd = "transmit" /\ written[j].m = 0

\* C27: the imageId of a KittyImage is an id whose m=0 chunk has been
\* written, and so is every id that a place or delete command names; where
\* the transfer is among the same writes, its m=0 chunk comes first.
C27_IdExposedAfterFinalChunk ==
    /\ \A k \in KittyComponents : kImageId[k] # NoImage => kImageId[k] \in completeIds
    /\ \A i \in DOMAIN written :
          NamesAnImage(written[i]) =>
             /\ written[i].id \in completeIds
             /\ \A h \in 1..(i - 1) : BeginsTransfer(h, written[i].id) => EndsBefore(h, i)

\* A transfer of more than two chunks, then the placement of its image.
C27_Witness ==
    /\ lifeStep = "transmitted"
    /\ \E i \in DOMAIN written :
          /\ i > 3 /\ written[i].cmd = "place"
          /\ BeginsTransfer(1, written[i].id) /\ EndsBefore(1, i)
          /\ \E k \in KittyComponents : kImageId[k] = written[i].id
----------------------------------------------------------------------------
(* queryEscapeSequence: the timers of an exchange *)

\* The exchange has started and resolve() has not been called.
ExchangeOpen == started /\ resolved = <<>>

\* C29: an exchange that is finalized, by the response timer, by the timer
\* between replies or by the close of stdin, has resolved once, has no
\* timer pending and has neither its data nor its close listener on stdin;
\* an exchange that is open has its listeners and a timer pending to
\* finalize it.
C29_FinalizedOnceNothingLeft ==
    /\ resolved # <<>> =>
          /\ Len(resolved) = 1
          /\ responseTimeoutId = NoTimer /\ timeoutBetweenRepliesId = NoTimer
          /\ ~onDataListening /\ ~onCloseListening
    /\ ExchangeOpen =>
          /\ onDataListening /\ onCloseListening
          /\ responseTimeoutId # NoTimer \/ timeoutBetweenRepliesId # NoTimer

\* The timer between replies has finalized an exchange of two chunks, and
\* time has gone on after it.
C29_Witness ==
    /\ ~stdinClosed /\ Len(resolved) = 1 /\ Len(resolved[1]) = 2
    /\ clock > responseTimeout + 2 * timeoutBetweenReplies

\* The window in which replies are read: the response timeout and one
\* period between replies.
BoundedWindow == responseTimeout + timeoutBetweenReplies

\* C30: an exchange is finalized within the window, whatever arrives and
\* whenever.
C30_FinalizedWithinTheWindow ==
    ExchangeOpen => clock <= BoundedWindow
----------------------------------------------------------------------------
(* Properties of freeId *)

\* C39: freeId(id) returns true and adds id to the free pool only for an id
\* of the managed range that is allocated (handed out and not in the free
\* pool); for any other id it returns false and leaves the generator as it
\* was.
C39_FreeOnlyAllocated ==
    [][(lastCall' # lastCall /\ lastCall'.op = "freeId") =>
          LET id == lastCall'.id
              allocated == id >= MIN_ID /\ id < currentId /\ id \notin SeqRange(freedIds)
          IN  /\ lastCall'.ok <=> allocated
              /\ lastCall'.ok => freedIds' = Append(freedIds, id)
              /\ ~lastCall'.ok => freedIds' = freedIds
              /\ currentId' = currentId]_vars
----------------------------------------------------------------------------
(* The order of the probe's queries *)

IsPrefixOf(p, q) == Len(p) <= Len(q) /\ \A i \in 1..Len(p) : p[i] = q[i]

\* The two orders the queries of one call can be written in.
OrderWithCellSize == <<"cellSize", "kitty", "deviceAttributes">>

OrderWithViewport == <<"cellSize", "windowSize", "kitty", "deviceAttributes">>

\* C31: the queries of a queryTerminalInfo call are written one at a time
\* in the order cell size, viewport size (only after a cell-size exchange
\* that gave no size), Kitty, device attributes; a query is written in the
\* step that finalizes the exchange before it, so one exchange at most is
\* open; and the snapshot has the default cell size only when neither
\* dimension query gave a size.
C31_QueriesInOrder ==
    /\ [](IsPrefixOf(queryLog, OrderWithCellSize)
            \/ IsPrefixOf(queryLog, OrderWithViewport))
    /\ []((probeStep # "idle") =>
            /\ queryLog # <<>> /\ queryLog[Len(queryLog)] = probeStep
            /\ (\E i \in 1..Len(queryLog) : queryLog[i] = "windowSize") <=>
                   (Len(queryLog) > 1 /\ 6 \notin parsedReports))
    /\ [][queryLog' # queryLog =>
            /\ runningReply' = NoReply
            /\ probeStep = "idle" \/ Len(queryLog') = Len(queryLog) + 1]_vars
    /\ [][(capsReady' /\ ~capsReady) =>
            (terminalDimensions' = DefaultDimensions <=> parsedReports' = {})]_vars

\* A call that asked for the viewport size, got it, and published.
C31_Witness ==
    /\ capsReady /\ probeStep = "idle"
    /\ queryLog = OrderWithViewport
    /\ parsedReports = {4}
    /\ terminalDimensions # DefaultDimensions
----------------------------------------------------------------------------
(* KittyImage: a transfer that fails part way *)

\* A transmit command that ends the transfer it belongs to
EndsTransfer(c) == c.cmd = "transmit" /\ c.m = 0

\* C32: a step of a KittyImage that writes a chunk with m=1 also writes,
\* after it, a command that ends the transfer (the m=0 chunk), also when
\* the transfer fails part way; and the component whose transfer failed
\* has hasError set.
C32_NoTransferLeftOpen ==
    \A i \in DOMAIN written :
        (written[i].cmd = "transmit" /\ written[i].m = 1) =>
            \E j \in DOMAIN written : j > i /\ EndsTransfer(written[j])
----------------------------------------------------------------------------
(* Loads of one component that overlap *)

\* C34: once no generateImageOutput call of the component is in flight,
\* and the call for the src it has now gave an image, the image committed
\* (imageId, imageOutput) is the one of that src, in whichever order the
\* calls ended.
C34_LatestRequestWins ==
    (inFlight = {} /\ request \in loadedOk) => committed = request
----------------------------------------------------------------------------
(* Several components on one stream *)

\* The saves and restores of a sequence of writes pair up, in order.
Bracketed(w) ==
    /\ \A i \in DOMAIN w : w[i].tok = "save" =>
          \E j \in DOMAIN w :
             /\ j > i /\ w[j].tok = "restore"
             /\ \A x \in (i + 1)..(j - 1) : w[x].tok \notin {"save", "restore"}
    /\ \A j \in DOMAIN w : w[j].tok = "restore" =>
          \E i \in DOMAIN w :
             /\ i < j /\ w[i].tok = "save"
             /\ \A x \in (i + 1)..(j - 1) : w[x].tok \notin {"save", "restore"}

\* Write i lies between a save and its restore.
InBracket(w, i) ==
    \E s, r \in DOMAIN w :
       /\ s < i /\ i < r /\ w[s].tok = "save" /\ w[r].tok = "restore"
       /\ \A x \in (s + 1)..(r - 1) : w[x].tok \notin {"save", "restore"}

\* C33: the writes of a step are all of one component; a chunk that
\* continues a Kitty transfer follows, in the same step, the chunk before
\* it of the same transfer; and every save-cursor group that is begun in
\* a step is closed in it. So no write of another component lies inside a
\* transfer or a save/restore group.
C33_GroupsAreContiguous ==
    /\ \A i, j \in DOMAIN stdoutWrites : stdoutWrites[i].by = stdoutWrites[j].by
    /\ \A i \in DOMAIN stdoutWrites :
          (stdoutWrites[i].tok = "transmit" /\ stdoutWrites[i].n = 0) =>
             /\ i > 1
             /\ stdoutWrites[i - 1].tok = "transmit" /\ stdoutWrites[i - 1].m = 1
    /\ Bracketed(stdoutWrites)

\* A whole transfer of three chunks was written by one component while
\* the render timer of another was pending.
C33_Witness ==
    \E c, d \in StreamComponents :
       /\ c # d /\ comp[d].renderTimeouts # {}
       /\ Len(stdoutWrites) > 3
       /\ stdoutWrites[1] = Wrote(c, "transmit", comp[c].imageId, 1)
       /\ stdoutWrites[2] = Wrote(c, "transmit", 0, 1)
       /\ stdoutWrites[3] = Wrote(c, "transmit", 0, 0)

\* No cell of the box lies on the terminal.
FullyOutside(pos) ==
    \/ rows - pos.appHeight + pos.row + pos.height <= 0
    \/ rows - pos.appHeight + pos.row >= rows
    \/ pos.col >= columns

\* C35: a render of a component whose box lies fully outside the terminal
\* writes no placement and no cursor movement for it, starts no timer
\* that would write a payload, records no bounding box, and leaves
\* hasError as it was.
C35_OffScreenWritesNothing ==
    [][\A c \in StreamComponents, pos \in StreamPositions :
          (StreamRender(c, pos) /\ FullyOutside(pos)) =>
             /\ \A i \in DOMAIN stdoutWrites' :
                   stdoutWrites'[i].tok \notin {"place", "payload", "cursorDown"}
             /\ comp'[c].renderTimeouts = {}
             /\ comp'[c].previousRenderBoundingBox = NoBoundingBox
             /\ comp'[c].hasError = comp[c].hasError]_vars

\* C36: the box recorded when a payload is written has the row
\* rows - appHeight + row and the column of the component, and the width
\* and height, in cells, of the payload written: the pixel size it
\* declares over the cell size, rounded up.
C36_BoxCoversThePayload ==
    [][\A c \in StreamComponents :
          comp'[c].lastPayload # comp[c].lastPayload =>
             \E t \in comp[c].renderTimeouts :
                comp'[c].previousRenderBoundingBox =
                   [row |-> rows - t.componentPosition.appHeight + t.componentPosition.row,
                    col |-> t.componentPosition.col,
                    width |-> Ceil(Frac(t.imageOutput.width, cellWidth)),
                    height |-> Ceil(Frac(t.imageOutput.height, cellHeight))]]_vars

\* C37: every write of a step other than the chunks of a transfer and the
\* delete commands is a save, a restore, or lies between a save and its
\* restore, and the saves and restores pair up.
C37_CursorBracketed ==
    /\ Bracketed(stdoutWrites)
    /\ \A i \in DOMAIN stdoutWrites :
          stdoutWrites[i].tok \notin {"transmit", "delete", "save", "restore"} =>
             InBracket(stdoutWrites, i)

\* C38: an ITerm2Image has at most one render timer pending, that of its
\* latest cycle; a cycle whose timer the next cleanup cleared never
\* writes its payload; payloads are written in the order of the cycles;
\* and blanks are written only over the box of a cycle that wrote.
C38_SupersededNeverWrites ==
    /\ [](\A c \in StreamComponents :
            /\ Cardinality(comp[c].renderTimeouts) <= 1
            /\ \A t \in comp[c].renderTimeouts :
                  t.cycle = comp[c].cycle /\ t.cycle \notin comp[c].superseded)
    /\ [][\A c \in StreamComponents :
            /\ comp'[c].lastPayload # comp[c].lastPayload =>
                  /\ comp'[c].lastPayload > comp[c].lastPayload
                  /\ comp'[c].lastPayload \notin comp[c].superseded
                  /\ \E i \in DOMAIN stdoutWrites' : stdoutWrites'[i].tok = "payload"
            /\ (\E i \in DOMAIN stdoutWrites' :
                   stdoutWrites'[i].by = c /\ stdoutWrites'[i].tok = "blanks") =>
                  /\ comp[c].lastPayload = comp[c].cycle
                  /\ comp[c].lastPayload \notin comp[c].superseded]_vars

\* A timer was cleared by the next cycle, and the payload of a later
\* cycle has been written.
C38_Witness ==
    \E c \in StreamComponents :
       /\ comp[c].superseded # {}
       /\ \A n \in comp[c].superseded : n < comp[c].lastPayload
       /\ comp[c].previousRenderBoundingBox # NoBoundingBox

====
